---- MODULE Spec2Model ----
(***************************************************************************)
(* Witness assignment of the transaction circuit                           *)
(* (zkevm-circuits/src/tx_circuit.rs): TxCircuit::synthesize_sub and       *)
(* TxCircuit::assign walk the batch and emit the rows of the tx table.     *)
(* The table is a sequence of row records; TLA+ position p holds the row   *)
(* at circuit offset p - 1.                                                *)
(*                                                                         *)
(* Field elements are modelled as integers: every value the bounded        *)
(* inputs produce is far below the field modulus, so no reduction occurs.  *)
(* Rust Option values are modelled as <<>> (None) and <<x>> (Some(x)).     *)
(***************************************************************************)
EXTENDS Integers, Sequences, FiniteSets, TLC

VARIABLES
    txs,                    \* TxCircuit.txs
    max_txs,                \* TxCircuit.max_txs
    max_calldata,           \* TxCircuit.max_calldata
    start_l1_queue_index,   \* TxCircuit.start_l1_queue_index
    chain_id,               \* TxCircuit.chain_id
    block,                  \* new_from_block: the witness block, if built from one
    keccak_input,           \* challenges.keccak_input()
    pc,                     \* position in synthesize_sub / assign
    padding_txs,            \* synthesize_sub: padding_txs
    sign_datas,             \* synthesize_sub: sign_datas
    table,                  \* rows assigned so far (offset = Len(table))
    q_first,                \* offsets at which the fixed column q_first is 1
    q_calldata_first,       \* offsets at which q_calldata_first is 1
    q_calldata_last,        \* offsets at which q_calldata_last is 1
    i,                      \* loop index of the header loop / calldata loop
    num_all_txs_acc,        \* assign: num_all_txs_acc
    total_l1_popped_before, \* assign: total_l1_popped_before
    total_l1_popped_after,  \* assign: total_l1_popped_after
    calldata_count,         \* assign: calldata_count
    last_off,               \* assign: last_off (offset returned by region 1)
    block_table,            \* rows of the dev block table (tag, index, value)
    builder                 \* a state circuit ConstraintBuilder and its caller

vars == <<txs, max_txs, max_calldata, start_l1_queue_index, chain_id, block,
          keccak_input, pc,
          padding_txs, sign_datas, table, q_first, q_calldata_first,
          q_calldata_last, i, num_all_txs_acc, total_l1_popped_before,
          total_l1_popped_after, calldata_count, last_off, block_table,
          builder>>

\* Everything but the constraint builder.
tx_circuit_vars ==
    <<txs, max_txs, max_calldata, start_l1_queue_index, chain_id, block,
      keccak_input, pc, padding_txs, sign_datas, table, q_first,
      q_calldata_first, q_calldata_last, i, num_all_txs_acc,
      total_l1_popped_before, total_l1_popped_after, calldata_count, last_off,
      block_table>>

inputs == <<txs, max_txs, max_calldata, start_l1_queue_index, chain_id, block,
            keccak_input>>

(***************************************************************************)
(* Bounds of the model                                                     *)
(***************************************************************************)
MaxTxs == 3
MaxCalldata == 8
MaxQueueGap == 1
MaxCalls == 3
MaxDepth == 2

(***************************************************************************)
(* Program constants                                                       *)
(***************************************************************************)
TX_LEN == 23
TX_HASH_OFFSET == 21
CHAIN_ID_OFFSET == 12

\* TxCircuitConfig.minimum_rows = meta.minimum_rows(): the number of rows the
\* backend reserves; a small stand-in for the backend's value (which is >= 1).
minimum_rows == 2

None == <<>>
Some(x) == <<x>>
UnwrapOr(o, d) == IF o = <<>> THEN d ELSE o[1]

b2i(b) == IF b THEN 1 ELSE 0

\* TxType as u64 (eth_types::geth_types::TxType); Default is Eip155.
TxTypes == {"Eip155", "PreEip155", "L1Msg"}
TxTypeDefault == "Eip155"
TxTypeAsU64(t) == CASE t = "Eip155" -> 0 [] t = "PreEip155" -> 1 [] OTHER -> 4
is_l1_msg(t) == t = "L1Msg"
is_eip155_tx(t) == t = "Eip155"

\* Tags of the header rows, in the order TxCircuit::assign emits them.
HeaderTags == << "Nonce", "GasPrice", "Gas", "CallerAddress", "CalleeAddress",
                 "IsCreate", "Value", "CallDataRLC", "CallDataLength",
                 "CallDataGasCost", "TxDataGasCost", "ChainID", "SigV", "SigR",
                 "SigS", "TxSignLength", "TxSignRLC", "TxSignHash",
                 "TxHashLength", "TxHashRLC", "TxHash", "TxType",
                 "BlockNumber" >>

(***************************************************************************)
(* Pure helpers                                                            *)
(***************************************************************************)
RECURSIVE rlc_be_bytes(_, _)
\* util::rlc_be_bytes: Horner fold of the bytes, first byte most significant.
rlc_be_bytes(bytes, r) ==
    IF bytes = <<>> THEN 0
    ELSE rlc_be_bytes(SubSeq(bytes, 1, Len(bytes) - 1), r) * r + bytes[Len(bytes)]

\* Mutant: the costs of a zero and a non-zero byte are exchanged.
byte_gas_cost_swapped(byte) == IF byte = 0 THEN 16 ELSE 4

\* per-byte calldata gas cost: `if byte.is_zero() { 4 } else { 16 }`
byte_gas_cost(byte) == IF byte = 0 THEN 4 ELSE 16

RECURSIVE tx_call_data_gas_cost(_)
\* Transaction.call_data_gas_cost as the transaction constructor derives it.
tx_call_data_gas_cost(bytes) ==
    IF bytes = <<>> THEN 0
    ELSE byte_gas_cost(Head(bytes)) + tx_call_data_gas_cost(Tail(bytes))

\* Number of transactions of `ts` satisfying P: `.iter().filter(..).count()`
CountTxs(ts, P(_)) == Cardinality({k \in 1..Len(ts) : P(ts[k])})

\* First 1-based index > from of a tx with non-empty calldata, or 0:
\* `.enumerate().skip(from).find(|(_, tx)| !tx.call_data.is_empty())
\*  .map(|(j, _)| j + 1).unwrap_or_else(|| 0)`
next_calldata_tx_id(ts, from) ==
    LET S == {k \in (from + 1)..Len(ts) : ts[k].call_data # <<>>}
    IN IF S = {} THEN 0 ELSE CHOOSE k \in S : \A m \in S : k <= m

(***************************************************************************)
(* Transactions                                                            *)
(***************************************************************************)
\* Values of the transaction fields no accumulator depends on.
Sample == [chain_id |-> 5, gas_price |-> 2, gas |-> 3, callee |-> 9,
           value |-> 1, tx_data_gas_cost |-> 6, r |-> 7, s |-> 8,
           caller |-> 11, default_signer |-> 13, dummy_signer |-> 15,
           other_signer |-> 17,
           block |-> 100]

\* witness::Transaction for a real transaction of the batch.
MkTx(id, tx_type, nonce, block_number, call_data) ==
    [id |-> id, tx_type |-> tx_type, nonce |-> nonce,
     gas_price |-> Sample.gas_price, gas |-> Sample.gas,
     caller_address |-> Sample.caller, callee_address |-> Some(Sample.callee),
     is_create |-> 0, value |-> Sample.value, call_data |-> call_data,
     call_data_gas_cost |-> tx_call_data_gas_cost(call_data),
     tx_data_gas_cost |-> Sample.tx_data_gas_cost,
     chain_id |-> Sample.chain_id,
     v |-> CASE tx_type = "Eip155" -> 2 * Sample.chain_id + 35
             [] tx_type = "PreEip155" -> 27
             [] OTHER -> 0,
     r |-> IF tx_type = "L1Msg" THEN 0 ELSE Sample.r,
     s |-> IF tx_type = "L1Msg" THEN 0 ELSE Sample.s,
     rlp_unsigned |-> <<1, id>>, rlp_signed |-> <<2, id>>, hash |-> <<3, id>>,
     block_number |-> block_number]

\* Transaction::dummy(chain_id) with tx.id = id: the padding transaction.
dummy(chain, id) ==
    [id |-> id, tx_type |-> "PreEip155", nonce |-> 0,
     gas_price |-> 0, gas |-> 0,
     caller_address |-> 0, callee_address |-> Some(0),
     is_create |-> 0, value |-> 0, call_data |-> <<>>,
     call_data_gas_cost |-> 0,
     tx_data_gas_cost |-> Sample.tx_data_gas_cost,
     chain_id |-> chain, v |-> 27, r |-> Sample.r, s |-> Sample.s,
     rlp_unsigned |-> <<1>>, rlp_signed |-> <<2>>, hash |-> <<3>>,
     block_number |-> 0]

\* Transaction::sign_data(): None when the signature does not recover
\* (stand-in: r = 0), else the recovered signer and the signed message.  A
\* signature with s = Sample.s recovers the transaction's own sender (the
\* dummy signer for the padding transaction), any other s another address.
tx_sign_data(tx) ==
    IF tx.r = 0 THEN None
    ELSE Some([addr |-> IF tx.s # Sample.s THEN Sample.other_signer
                        ELSE IF tx.caller_address = 0 THEN Sample.dummy_signer
                        ELSE tx.caller_address,
               msg |-> tx.rlp_unsigned])

\* Mutant: an L1 message is asked for its signature like any transaction.
sign_data_of_l1_signed(tx) == tx_sign_data(tx)

\* The closure mapped over txs.chain(padding_txs): Ok(SignData::default())
\* for an L1 message, tx.sign_data() with its error mapped to
\* Error::Synthesis otherwise.
sign_data_of(tx) ==
    IF is_l1_msg(tx.tx_type)
    THEN Some([addr |-> Sample.default_signer, msg |-> <<>>])
    ELSE tx_sign_data(tx)

(***************************************************************************)
(* TxCircuitConfig::assign_row                                             *)
(***************************************************************************)
\* Mutant: TxCalldata is enabled on every CallDataLength row, whatever its value.
lookup_conditions_any_length(tx, tag, value) ==
    IF tag = "CallDataLength" THEN {"TxCalldata"} ELSE {}

LookupConditionNames == {"TxCalldata", "L1MsgHash", "RlpSignTag", "RlpHashTag", "Keccak"}

\* Mutant: RlpSignTag is set on the signed tags of an L1 message too.
lookup_conditions_sign_on_l1(tx, tag, value) ==
    LET l1 == IF tx = None THEN FALSE ELSE is_l1_msg(tx[1].tx_type)
        eip155 == IF tx = None THEN FALSE ELSE is_eip155_tx(tx[1].tx_type)
        sign_set == {"Nonce", "GasPrice", "Gas", "CalleeAddress", "Value",
                     "CallDataRLC", "TxSignLength", "TxSignRLC"}
        hash_set == {"Nonce", "GasPrice", "Gas", "CalleeAddress", "Value",
                     "CallDataRLC", "TxDataGasCost", "SigV", "SigR", "SigS",
                     "TxHashLength", "TxHashRLC"}
        l1_hash_set == {"Nonce", "Gas", "CalleeAddress", "Value", "CallDataRLC",
                        "CallerAddress", "TxHashLength", "TxHashRLC"}
    IN IF tag = "CallData" THEN {}
       ELSE {c \in LookupConditionNames :
               \/ c = "TxCalldata" /\ tag = "CallDataLength" /\ value # 0
               \/ c = "RlpSignTag" /\ (tag \in sign_set \/ (tag = "ChainID" /\ eip155))
               \/ c = "RlpHashTag" /\ ~l1 /\ tag \in hash_set
               \/ c = "L1MsgHash" /\ l1 /\ tag \in l1_hash_set
               \/ c = "Keccak" /\ ((tag = "TxSignLength" /\ ~l1) \/ tag = "TxHashLength")}

\* The lookup-condition columns assign_row sets to 1 on a row.
lookup_conditions(tx, tag, value) ==
    LET l1 == IF tx = None THEN FALSE ELSE is_l1_msg(tx[1].tx_type)
        eip155 == IF tx = None THEN FALSE ELSE is_eip155_tx(tx[1].tx_type)
        sign_set == {"Nonce", "GasPrice", "Gas", "CalleeAddress", "Value",
                     "CallDataRLC", "TxSignLength", "TxSignRLC"}
        hash_set == {"Nonce", "GasPrice", "Gas", "CalleeAddress", "Value",
                     "CallDataRLC", "TxDataGasCost", "SigV", "SigR", "SigS",
                     "TxHashLength", "TxHashRLC"}
        l1_hash_set == {"Nonce", "Gas", "CalleeAddress", "Value", "CallDataRLC",
                        "CallerAddress", "TxHashLength", "TxHashRLC"}
    IN IF tag = "CallData" THEN {}
       ELSE {c \in LookupConditionNames :
               \/ c = "TxCalldata" /\ tag = "CallDataLength" /\ value # 0
               \/ c = "RlpSignTag" /\ ((tag \in sign_set /\ ~l1) \/ (tag = "ChainID" /\ eip155))
               \/ c = "RlpHashTag" /\ ~l1 /\ tag \in hash_set
               \/ c = "L1MsgHash" /\ l1 /\ tag \in l1_hash_set
               \/ c = "Keccak" /\ ((tag = "TxSignLength" /\ ~l1) \/ tag = "TxHashLength")}

\* One row as assign_row writes it (tx_id, tx_id_next, next_block_num are the
\* inputs it hands to the is-zero / is-equal chips).  index and sv_address
\* are not assign_row's: their defaults are overwritten by the caller.
assign_row(tx, tx_id, tx_id_next, tag, value, is_none, is_padding_tx, cum_num_txs, num_txs, is_final, calldata_gas_cost_acc, calldata_rlc, cur_block_num, next_block_number, num_all_txs_acc_, total_l1_popped_before_) ==
    [tag |-> tag,
     tx_id |-> tx_id,
     tx_id_next |-> tx_id_next,
     index |-> 0,
     value |-> value,
     tx_type |-> TxTypeAsU64(IF tx = None THEN TxTypeDefault ELSE tx[1].tx_type),
     is_none |-> b2i(UnwrapOr(is_none, FALSE)),
     tx_nonce |-> IF tx = None THEN 0 ELSE tx[1].nonce,
     block_num |-> UnwrapOr(cur_block_num, 0),
     next_block_num |-> UnwrapOr(next_block_number, 0),
     num_all_txs_acc |-> UnwrapOr(num_all_txs_acc_, 0),
     total_l1_popped_before |-> UnwrapOr(total_l1_popped_before_, 0),
     conditions |-> lookup_conditions(tx, tag, value),
     is_l1_msg |-> b2i(IF tx = None THEN FALSE ELSE is_l1_msg(tx[1].tx_type)),
     is_calldata |-> b2i(tag = "CallData"),
     is_final |-> b2i(UnwrapOr(is_final, FALSE)),
     calldata_gas_cost_acc |-> UnwrapOr(calldata_gas_cost_acc, 0),
     calldata_rlc |-> UnwrapOr(calldata_rlc, 0),
     is_padding_tx |-> b2i(UnwrapOr(is_padding_tx, FALSE)),
     cum_num_txs |-> UnwrapOr(cum_num_txs, 0),
     num_txs |-> UnwrapOr(num_txs, 0),
     sv_address |-> 0,
     q_enable |-> 1]

\* Mutant: the zero rows carry the tx_id of the first transaction.
calldata_zero_row_with_tx_id ==
    [tag |-> "CallData", tx_id |-> 1, tx_id_next |-> 0, index |-> 0, value |-> 0,
     tx_type |-> 0, is_none |-> 0, tx_nonce |-> 0, block_num |-> 0,
     next_block_num |-> 0, num_all_txs_acc |-> 0, total_l1_popped_before |-> 0,
     conditions |-> {}, is_l1_msg |-> 0, is_calldata |-> 1, is_final |-> 1,
     calldata_gas_cost_acc |-> 0, calldata_rlc |-> 0, is_padding_tx |-> 0,
     cum_num_txs |-> 0, num_txs |-> 0, sv_address |-> 0, q_enable |-> 1]

\* A row of TxCircuitConfig::assign_calldata_zeros; the columns it leaves
\* unassigned read 0.
calldata_zero_row ==
    [tag |-> "CallData", tx_id |-> 0, tx_id_next |-> 0, index |-> 0, value |-> 0,
     tx_type |-> 0, is_none |-> 0, tx_nonce |-> 0, block_num |-> 0,
     next_block_num |-> 0, num_all_txs_acc |-> 0, total_l1_popped_before |-> 0,
     conditions |-> {}, is_l1_msg |-> 0, is_calldata |-> 1, is_final |-> 1,
     calldata_gas_cost_acc |-> 0, calldata_rlc |-> 0, is_padding_tx |-> 0,
     cum_num_txs |-> 0, num_txs |-> 0, sv_address |-> 0, q_enable |-> 1]

\* A row of TxCircuitConfig::assign_paddings: only the tag (Null) is assigned.
padding_row ==
    [calldata_zero_row EXCEPT !.tag = "Null", !.is_calldata = 0, !.is_final = 0,
                              !.q_enable = 0]

(***************************************************************************)
(* TxCircuit::assign, header part                                          *)
(***************************************************************************)
\* Horner fold `fold(0, |acc, byte| acc * rand + byte)` used for the RLCs
\* and hashes of the header rows.
fold_bytes(bytes, rand) == rlc_be_bytes(bytes, rand)

\* Mutant: the TxType row is emitted before the TxHash row.
header_fields_type_before_hash(tx, sign_data, r) ==
    << [tag |-> "Nonce", is_none |-> Some(tx.nonce = 0), value |-> tx.nonce],
       [tag |-> "GasPrice", is_none |-> Some(tx.gas_price = 0), value |-> tx.gas_price],
       [tag |-> "Gas", is_none |-> Some(tx.gas = 0), value |-> tx.gas],
       [tag |-> "CallerAddress", is_none |-> None, value |-> tx.caller_address],
       [tag |-> "CalleeAddress", is_none |-> Some(tx.callee_address = None),
        value |-> UnwrapOr(tx.callee_address, 0)],
       [tag |-> "IsCreate", is_none |-> None, value |-> tx.is_create],
       [tag |-> "Value", is_none |-> Some(tx.value = 0), value |-> tx.value],
       [tag |-> "CallDataRLC", is_none |-> Some(tx.call_data = <<>>),
        value |-> rlc_be_bytes(tx.call_data, r)],
       [tag |-> "CallDataLength", is_none |-> None, value |-> Len(tx.call_data)],
       [tag |-> "CallDataGasCost", is_none |-> None, value |-> tx.call_data_gas_cost],
       [tag |-> "TxDataGasCost", is_none |-> None, value |-> tx.tx_data_gas_cost],
       [tag |-> "ChainID", is_none |-> Some(tx.chain_id = 0), value |-> tx.chain_id],
       [tag |-> "SigV", is_none |-> Some(tx.v = 0), value |-> tx.v],
       [tag |-> "SigR", is_none |-> Some(tx.r = 0), value |-> tx.r],
       [tag |-> "SigS", is_none |-> Some(tx.s = 0), value |-> tx.s],
       [tag |-> "TxSignLength", is_none |-> Some(FALSE), value |-> Len(tx.rlp_unsigned)],
       [tag |-> "TxSignRLC", is_none |-> Some(FALSE), value |-> fold_bytes(tx.rlp_unsigned, r)],
       [tag |-> "TxSignHash", is_none |-> None, value |-> fold_bytes(sign_data.msg, r)],
       [tag |-> "TxHashLength", is_none |-> Some(FALSE), value |-> Len(tx.rlp_signed)],
       [tag |-> "TxHashRLC", is_none |-> Some(FALSE), value |-> fold_bytes(tx.rlp_signed, r)],
       [tag |-> "TxType", is_none |-> None, value |-> TxTypeAsU64(tx.tx_type)],
       [tag |-> "TxHash", is_none |-> None, value |-> fold_bytes(tx.hash, r)],
       [tag |-> "BlockNumber", is_none |-> None, value |-> tx.block_number] >>

\* The (tag, is_none, value) list of one transaction, in emission order.
header_fields(tx, sign_data, r) ==
    << [tag |-> "Nonce", is_none |-> Some(tx.nonce = 0), value |-> tx.nonce],
       [tag |-> "GasPrice", is_none |-> Some(tx.gas_price = 0), value |-> tx.gas_price],
       [tag |-> "Gas", is_none |-> Some(tx.gas = 0), value |-> tx.gas],
       [tag |-> "CallerAddress", is_none |-> None, value |-> tx.caller_address],
       [tag |-> "CalleeAddress", is_none |-> Some(tx.callee_address = None),
        value |-> UnwrapOr(tx.callee_address, 0)],
       [tag |-> "IsCreate", is_none |-> None, value |-> tx.is_create],
       [tag |-> "Value", is_none |-> Some(tx.value = 0), value |-> tx.value],
       [tag |-> "CallDataRLC", is_none |-> Some(tx.call_data = <<>>),
        value |-> rlc_be_bytes(tx.call_data, r)],
       [tag |-> "CallDataLength", is_none |-> None, value |-> Len(tx.call_data)],
       [tag |-> "CallDataGasCost", is_none |-> None, value |-> tx.call_data_gas_cost],
       [tag |-> "TxDataGasCost", is_none |-> None, value |-> tx.tx_data_gas_cost],
       [tag |-> "ChainID", is_none |-> Some(tx.chain_id = 0), value |-> tx.chain_id],
       [tag |-> "SigV", is_none |-> Some(tx.v = 0), value |-> tx.v],
       [tag |-> "SigR", is_none |-> Some(tx.r = 0), value |-> tx.r],
       [tag |-> "SigS", is_none |-> Some(tx.s = 0), value |-> tx.s],
       [tag |-> "TxSignLength", is_none |-> Some(FALSE), value |-> Len(tx.rlp_unsigned)],
       [tag |-> "TxSignRLC", is_none |-> Some(FALSE), value |-> fold_bytes(tx.rlp_unsigned, r)],
       [tag |-> "TxSignHash", is_none |-> None, value |-> fold_bytes(sign_data.msg, r)],
       [tag |-> "TxHashLength", is_none |-> Some(FALSE), value |-> Len(tx.rlp_signed)],
       [tag |-> "TxHashRLC", is_none |-> Some(FALSE), value |-> fold_bytes(tx.rlp_signed, r)],
       [tag |-> "TxHash", is_none |-> None, value |-> fold_bytes(tx.hash, r)],
       [tag |-> "TxType", is_none |-> None, value |-> TxTypeAsU64(tx.tx_type)],
       [tag |-> "BlockNumber", is_none |-> None, value |-> tx.block_number] >>

\* The transaction of header slot idx (0-based): real, then padding.
slot_tx(idx) ==
    IF idx < Len(txs) THEN txs[idx + 1] ELSE padding_txs[idx - Len(txs) + 1]

\* Mutant: an L1 message counts the skipped queue entries but not itself.
next_num_all_txs_acc_l1_not_counted(idx, tx, acc, popped_before) ==
    LET contribution == IF is_l1_msg(tx.tx_type)
                        THEN tx.nonce - popped_before
                        ELSE 1
    IN IF idx = 0 \/ tx.block_number # txs[idx].block_number
       THEN contribution
       ELSE acc + contribution

\* Mutant: only the first transaction of the batch starts a new count.
next_num_all_txs_acc_no_reset(idx, tx, acc, popped_before) ==
    LET contribution == IF is_l1_msg(tx.tx_type)
                        THEN tx.nonce - popped_before + 1
                        ELSE 1
    IN IF idx = 0 THEN contribution ELSE acc + contribution

\* num_all_txs_acc of a real transaction: init_new_block or the same-block step.
next_num_all_txs_acc(idx, tx, acc, popped_before) ==
    LET contribution == IF is_l1_msg(tx.tx_type)
                        THEN tx.nonce - popped_before + 1
                        ELSE 1
    IN IF idx = 0 \/ tx.block_number # txs[idx].block_number
       THEN contribution
       ELSE acc + contribution

\* Mutant: an L1 message leaves its own queue index as the popped total.
next_total_l1_popped_after_no_increment(tx, popped_before) ==
    IF is_l1_msg(tx.tx_type) THEN tx.nonce ELSE popped_before

\* total_l1_popped_after of a real transaction.
next_total_l1_popped_after(tx, popped_before) ==
    IF is_l1_msg(tx.tx_type) THEN tx.nonce + 1 ELSE popped_before

\* Mutant: the 0-based loop index is used as the tx_id.
slot_tx_id_zero_based(idx) == idx

\* tx_id of header slot idx: `i + 1`, tx_id in tx table starts with 1.
slot_tx_id(idx) == idx + 1

\* Mutant: the BlockNumber row takes the next transaction's block number as
\* its own.
row_look_ahead_next_block(idx, tag, tx) ==
    IF tag = "BlockNumber" /\ idx + 1 < Len(txs)
    THEN <<idx + 2, txs[idx + 2].block_number, txs[idx + 2].block_number>>
    ELSE <<idx + 1, tx.block_number, tx.block_number>>

\* Mutant: the last slot hands its own block number on as the next one.
row_look_ahead_last_keeps_block(idx, tag, tx) ==
    IF tag = "BlockNumber"
    THEN IF idx = Len(sign_datas) - 1
         THEN <<next_calldata_tx_id(txs, 0), tx.block_number, tx.block_number>>
         ELSE IF idx + 1 >= Len(txs)
              THEN <<idx + 2, tx.block_number, padding_txs[1].block_number>>
              ELSE <<idx + 2, tx.block_number, txs[idx + 2].block_number>>
    ELSE <<idx + 1, tx.block_number, tx.block_number>>

\* (tx_id_next, cur_block_num, next_block_num) of the row with `tag` in slot idx.
row_look_ahead(idx, tag, tx) ==
    IF tag = "BlockNumber"
    THEN IF idx = Len(sign_datas) - 1
         THEN <<next_calldata_tx_id(txs, 0), tx.block_number, 0>>
         ELSE IF idx + 1 >= Len(txs)
              THEN <<idx + 2, tx.block_number, padding_txs[1].block_number>>
              ELSE <<idx + 2, tx.block_number, txs[idx + 2].block_number>>
    ELSE <<idx + 1, tx.block_number, tx.block_number>>

\* Mutant: only the transactions of earlier blocks are counted.
cum_num_txs_of_earlier_blocks(block_num) ==
    CountTxs(txs, LAMBDA t : t.block_number < block_num)

\* cum_num_txs of a real transaction: the transactions up to its block.
cum_num_txs_of(block_num) ==
    CountTxs(txs, LAMBDA t : t.block_number <= block_num)

\* Mutant: the transaction itself is left out of the count of its block.
num_txs_of_others(block_num) ==
    CountTxs(txs, LAMBDA t : t.block_number = block_num) - 1

\* num_txs of a real transaction: the transactions of its block.
num_txs_of(block_num) ==
    CountTxs(txs, LAMBDA t : t.block_number = block_num)

\* Mutant: the first appended transaction is still taken for a real one.
is_real_tx_off_by_one(idx) == idx <= Len(txs)

\* `i < self.txs.len()`: iteration idx handles a real transaction
\* (is_padding_tx = false), otherwise a padding one (is_padding_tx = true).
is_real_tx(idx) == idx < Len(txs)

\* The TX_LEN rows of header slot idx.
header_rows(idx, acc, popped_before) ==
    LET tx == slot_tx(idx)
        real == is_real_tx(idx)
        cum_num_txs_ == IF real THEN cum_num_txs_of(tx.block_number) ELSE 0
        num_txs_ == IF real THEN num_txs_of(tx.block_number) ELSE 0
        fields == header_fields(tx, sign_datas[idx + 1], keccak_input)
    IN [k \in 1..Len(fields) |->
          LET la == row_look_ahead(idx, fields[k].tag, tx)
          IN [assign_row(Some(tx), slot_tx_id(idx), la[1], fields[k].tag, fields[k].value,
                         fields[k].is_none, Some(~real), Some(cum_num_txs_),
                         Some(num_txs_), None, None, None, Some(la[2]), Some(la[3]),
                         Some(acc), Some(popped_before))
              EXCEPT !.sv_address = sign_datas[idx + 1].addr]]

(***************************************************************************)
(* TxCircuit::assign, calldata part                                        *)
(***************************************************************************)
\* Mutant: the final byte is looked for one position past the end.
calldata_look_ahead_off_by_one(idx, index, calldata_length) ==
    IF index = calldata_length THEN <<0, TRUE>> ELSE <<idx + 1, FALSE>>

\* (tx_id_next, is_final) of calldata byte `index` of transaction idx.
calldata_look_ahead(idx, index, calldata_length) ==
    IF index = calldata_length - 1
    THEN IF idx = Len(txs) - 1
         THEN <<0, TRUE>>
         ELSE <<next_calldata_tx_id(txs, idx + 1), TRUE>>
    ELSE <<idx + 1, FALSE>>

RECURSIVE calldata_gas_cost_upto(_, _)
\* calldata_gas_cost after the loop body has run for bytes 0..index.
calldata_gas_cost_upto(bytes, index) ==
    IF index < 0 THEN 0
    ELSE calldata_gas_cost_upto(bytes, index - 1) + byte_gas_cost(bytes[index + 1])

RECURSIVE calldata_rlc_little_endian(_, _, _)
\* Mutant: the fold weighs the bytes little-endian (acc + byte * r^index).
calldata_rlc_little_endian(bytes, index, r) ==
    IF index < 0 THEN 0
    ELSE calldata_rlc_little_endian(bytes, index - 1, r) + bytes[index + 1] * r ^ index

RECURSIVE calldata_rlc_upto(_, _, _)
\* calldata_rlc after the loop body has run for bytes 0..index.
calldata_rlc_upto(bytes, index, r) ==
    IF index < 0 THEN 0
    ELSE calldata_rlc_upto(bytes, index - 1, r) * r + bytes[index + 1]

\* Mutant: the 0-based loop index is used as the tx_id of the calldata rows.
calldata_tx_id_zero_based(idx) == idx

\* tx_id of the calldata rows of transaction idx: `i + 1`.
calldata_tx_id(idx) == idx + 1

\* The calldata rows of transaction idx (0-based).
calldata_rows(idx) ==
    LET tx == txs[idx + 1]
        calldata_length == Len(tx.call_data)
    IN [k \in 1..calldata_length |->
          LET index == k - 1
              la == calldata_look_ahead(idx, index, calldata_length)
          IN [assign_row(Some(tx), calldata_tx_id(idx), la[1], "CallData", tx.call_data[k],
                         None, None, None, None, Some(la[2]),
                         Some(calldata_gas_cost_upto(tx.call_data, index)),
                         Some(calldata_rlc_upto(tx.call_data, index, keccak_input)),
                         None, None, None, None)
              EXCEPT !.index = index]]

\* TxCircuit::min_num_rows
min_num_rows(txs_len, call_data_len) == txs_len * TX_LEN + call_data_len

\* TxCircuit.size as TxCircuit::new sets it.
size == min_num_rows(max_txs, max_calldata)

(***************************************************************************)
(* Inputs                                                                  *)
(***************************************************************************)
BlockNums == {Sample.block, Sample.block + 1}
CallDatas == {<<>>, <<0>>, <<0, 1>>, <<7, 0>>}
Challenges == {3}

\* A transaction kind: its type and, for an L1 message, the number of queue
\* entries skipped before it (its queue index is popped-so-far + gap).
TxKinds == [tx_type : TxTypes \ {"L1Msg"}, gap : {0}]
             \cup [tx_type : {"L1Msg"}, gap : 0..MaxQueueGap]

RECURSIVE popped_after(_, _, _)
\* total L1 messages popped after the first n transactions of `kinds`.
popped_after(kinds, n, start) ==
    IF n = 0 THEN start
    ELSE IF kinds[n].tx_type = "L1Msg"
         THEN popped_after(kinds, n - 1, start) + kinds[n].gap + 1
         ELSE popped_after(kinds, n - 1, start)

\* Batches that vary types, queue indices and block numbers (the first
\* transaction is in the first block; later ones may go forth and back).
AccountingBatches(start) ==
    UNION {
      { [k \in 1..n |->
           MkTx(k, kinds[k].tx_type,
                IF kinds[k].tx_type = "L1Msg"
                THEN popped_after(kinds, k - 1, start) + kinds[k].gap
                ELSE k - 1,
                blocks[k], <<>>)] :
        kinds \in [1..n -> TxKinds],
        blocks \in {b \in [1..n -> BlockNums] : n >= 1 => b[1] = Sample.block} } :
      n \in 0..MaxTxs }

\* Batches that vary the calldata.
CalldataBatches ==
    UNION {
      { [k \in 1..n |-> MkTx(k, "Eip155", k - 1, Sample.block, datas[k])] :
        datas \in [1..n -> CallDatas] } :
      n \in 0..MaxTxs }

\* A signature kind: "ok" recovers the sender (recovery id 0), "odd" recovers
\* it with recovery id 1, "other" recovers another address, "fail" does not
\* recover; "l1" is an L1 message (no signature).
SigKinds == {"ok", "odd", "other", "fail", "l1"}

\* Batches that vary the signatures (L1 messages take the queue in order).
SignatureBatches ==
    UNION {
      { [k \in 1..n |->
           IF kinds[k] = "l1"
           THEN MkTx(k, "L1Msg", Cardinality({j \in 1..(k - 1) : kinds[j] = "l1"}),
                     Sample.block, <<>>)
           ELSE [MkTx(k, "Eip155", k - 1, Sample.block, <<>>)
                    EXCEPT !.v = IF kinds[k] = "odd" THEN @ + 1 ELSE @,
                           !.r = IF kinds[k] = "fail" THEN 0 ELSE Sample.r,
                           !.s = IF kinds[k] = "other" THEN Sample.s + 1 ELSE Sample.s]] :
        kinds \in [1..n -> SigKinds] } :
      n \in 0..MaxTxs }

\* Batches that vary the block numbers only, a jump of 2^16 included.
BlockBatches ==
    UNION {
      { [k \in 1..n |-> MkTx(k, "Eip155", k - 1, blocks[k], <<>>)] :
        blocks \in [1..n -> BlockNums \cup {Sample.block + 2 ^ 16}] } :
      n \in 0..MaxTxs }

Init ==
    /\ \/ /\ start_l1_queue_index = 0
          /\ txs \in BlockBatches
          /\ max_calldata = minimum_rows + 1
       \/ /\ start_l1_queue_index = 0
          /\ txs \in SignatureBatches
          /\ max_calldata = minimum_rows + 1
       \/ /\ start_l1_queue_index = 1
          /\ txs \in AccountingBatches(start_l1_queue_index)
          /\ max_calldata = minimum_rows + 1
       \/ /\ start_l1_queue_index = 0
          /\ txs \in CalldataBatches
          /\ max_calldata \in 0..MaxCalldata
    /\ max_txs \in 0..MaxTxs
    /\ max_txs >= Len(txs) - 1
    /\ chain_id = Sample.chain_id
    /\ block = None
    /\ keccak_input \in Challenges
    /\ pc = "start"
    /\ padding_txs = <<>>
    /\ sign_datas = <<>>
    /\ table = <<>>
    /\ q_first = {}
    /\ q_calldata_first = {}
    /\ q_calldata_last = {}
    /\ i = 0
    /\ num_all_txs_acc = 0
    /\ total_l1_popped_before = 0
    /\ total_l1_popped_after = 0
    /\ calldata_count = 0
    /\ last_off = 0
    /\ block_table = <<>>
    /\ builder = None

(***************************************************************************)
(* TxCircuit::assign_dev_block_table                                       *)
(***************************************************************************)
BlockTableTags == << "NumTxs", "CumNumTxs", "NumAllTxs" >>

\* A BTreeMap: a function whose domain is the set of keys inserted so far.
map_insert(m, k, v) == [x \in DOMAIN m \cup {k} |-> IF x = k THEN v ELSE m[x]]

RECURSIVE dev_block_counts(_)
\* The maps num_txs_in_blocks and num_all_txs_in_blocks and the local
\* total_l1_popped_before after the loop has run over the first n transactions.
dev_block_counts(n) ==
    IF n = 0
    THEN [total_l1_popped_before |-> 0, num_txs_in_blocks |-> <<>>,
          num_all_txs_in_blocks |-> <<>>]
    ELSE LET prev == dev_block_counts(n - 1)
             tx == txs[n]
             b == tx.block_number
             popped == prev.total_l1_popped_before
             l1 == is_l1_msg(tx.tx_type)
             seen == b \in DOMAIN prev.num_all_txs_in_blocks
         IN [total_l1_popped_before |->
                 IF seen /\ l1 THEN tx.nonce + 1 ELSE popped,
             num_txs_in_blocks |->
                 IF b \in DOMAIN prev.num_txs_in_blocks
                 THEN map_insert(prev.num_txs_in_blocks, b, prev.num_txs_in_blocks[b] + 1)
                 ELSE map_insert(prev.num_txs_in_blocks, b, 1),
             num_all_txs_in_blocks |->
                 IF seen
                 THEN map_insert(prev.num_all_txs_in_blocks, b,
                                 prev.num_all_txs_in_blocks[b]
                                   + (IF l1 THEN tx.nonce - popped + 1 ELSE 1))
                 ELSE map_insert(prev.num_all_txs_in_blocks, b,
                                 IF l1 THEN tx.nonce - popped + 1 ELSE 1)]

\* block_nums: the BTreeSet of the block numbers, and its k-th element in
\* ascending order (k from 1).
block_nums == {txs[k].block_number : k \in 1..Len(txs)}
block_nums_nth(k) ==
    CHOOSE b \in block_nums : Cardinality({c \in block_nums : c < b}) = k - 1

\* The (block_num, num_txs, cum_num_txs, num_all_txs) entries: the all-zero
\* entry, then one per block number in ascending order.
dev_block_entries ==
    LET counts == dev_block_counts(Len(txs))
    IN [e \in 1..(Cardinality(block_nums) + 1) |->
          IF e = 1 THEN <<0, 0, 0, 0>>
          ELSE LET b == block_nums_nth(e - 1)
                   earlier == {c \in block_nums : c <= b}
               IN <<b, counts.num_txs_in_blocks[b],
                    Cardinality({k \in 1..Len(txs) : txs[k].block_number \in earlier}),
                    counts.num_all_txs_in_blocks[b]>>]

\* The rows of the region "dev block table": row offset * 3 + j.
dev_block_rows ==
    [row \in 1..(3 * Len(dev_block_entries)) |->
        LET e == dev_block_entries[((row - 1) \div 3) + 1]
            j == ((row - 1) % 3) + 1
        IN [tag |-> BlockTableTags[j], index |-> e[1], value |-> e[j + 1]]]

(***************************************************************************)
(* TxCircuit::synthesize_sub and TxCircuit::assign as steps                *)
(***************************************************************************)
offset == Len(table)

\* assign_dev_block_table, which the test circuit runs before synthesize_sub.
AssignDevBlockTable ==
    /\ pc = "start"
    /\ block_table = <<>>
    /\ block_table' = dev_block_rows
    /\ UNCHANGED <<inputs, builder, pc, padding_txs, sign_datas, table, q_first, q_calldata_first,
                   q_calldata_last, i, num_all_txs_acc, total_l1_popped_before,
                   total_l1_popped_after, calldata_count, last_off>>

\* Mutant: the range of the padding ids starts one too late.
make_padding_txs_one_short ==
    [k \in 1..(max_txs - Len(txs) - 1) |-> dummy(chain_id, Len(txs) + k + 1)]

\* padding_txs: (self.txs.len()..self.max_txs) mapped to dummy transactions
\* with id i + 1.
make_padding_txs ==
    [k \in 1..(max_txs - Len(txs)) |-> dummy(chain_id, Len(txs) + k)]

\* synthesize_sub up to the call of assign: the capacity assertion, the
\* padding transactions and the sign data.
SynthesizeSub ==
    /\ pc = "start"
    /\ block_table # <<>>
    /\ IF Len(txs) <= max_txs
       THEN LET results == [k \in 1..(Len(txs) + Len(make_padding_txs)) |->
                              sign_data_of(IF k <= Len(txs) THEN txs[k]
                                           ELSE make_padding_txs[k - Len(txs)])]
            IN IF \E k \in DOMAIN results : results[k] = None
               THEN /\ pc' = "error_synthesis"
                    /\ padding_txs' = make_padding_txs
                    /\ UNCHANGED sign_datas
               ELSE /\ padding_txs' = make_padding_txs
                    /\ sign_datas' = [k \in DOMAIN results |-> results[k][1]]
                    /\ pc' = "assign"
       ELSE /\ pc' = "panic"
            /\ UNCHANGED <<padding_txs, sign_datas>>
    /\ UNCHANGED <<inputs, builder, block_table, table, q_first, q_calldata_first, q_calldata_last, i,
                   num_all_txs_acc, total_l1_popped_before, total_l1_popped_after,
                   calldata_count, last_off>>

\* Mutant: tx_id and tx_id_next of the empty entry are swapped.
empty_entry_swapped_ids ==
    assign_row(None, b2i(sign_datas # <<>>), 0, "Null", 0, None, None,
               None, None, None, None, None, None, None, None, None)

\* The empty entry at offset 0 (tag Null, tx_id 0, value 0).
empty_entry ==
    assign_row(None, 0, b2i(sign_datas # <<>>), "Null", 0, None, None,
               None, None, None, None, None, None, None, None, None)

\* assign: the accumulators' initial values, the empty entry and q_first.
AssignEmptyEntry ==
    /\ pc = "assign"
    /\ num_all_txs_acc' = 0
    /\ total_l1_popped_before' = start_l1_queue_index
    /\ total_l1_popped_after' = start_l1_queue_index
    /\ table' = << empty_entry >>
    /\ q_first' = {0}
    /\ i' = 0
    /\ pc' = "fixed"
    /\ UNCHANGED <<inputs, builder, block_table, padding_txs, sign_datas, q_calldata_first, q_calldata_last,
                   calldata_count, last_off>>

\* One iteration of `for (i, sign_data) in sigs.iter().enumerate()`.
AssignTxFixed ==
    /\ pc = "fixed"
    /\ i < Len(sign_datas)
    /\ LET tx == slot_tx(i)
           real == is_real_tx(i)
           acc == IF real
                  THEN next_num_all_txs_acc(i, tx, num_all_txs_acc, total_l1_popped_before)
                  ELSE i - Len(txs) + 1
           after == IF real
                    THEN next_total_l1_popped_after(tx, total_l1_popped_before)
                    ELSE total_l1_popped_after
       IN /\ num_all_txs_acc' = acc
          /\ total_l1_popped_after' = after
          /\ table' = table \o header_rows(i, acc, total_l1_popped_before)
          /\ total_l1_popped_before' = after
    /\ i' = i + 1
    /\ UNCHANGED <<inputs, builder, block_table, pc, padding_txs, sign_datas, q_first, q_calldata_first,
                   q_calldata_last, calldata_count, last_off>>

\* End of the header loop: `assert_eq!(offset, self.max_txs * TX_LEN + 1)`.
FixedDone ==
    /\ pc = "fixed"
    /\ i = Len(sign_datas)
    /\ pc' = IF offset = max_txs * TX_LEN + 1 THEN "calldata" ELSE "panic"
    /\ calldata_count' = 0
    /\ i' = 0
    /\ UNCHANGED <<inputs, builder, block_table, padding_txs, sign_datas, table, q_first, q_calldata_first,
                   q_calldata_last, num_all_txs_acc, total_l1_popped_before,
                   total_l1_popped_after, last_off>>

\* Mutant: the byte loop does not check the capacity.
calldata_within_capacity_unchecked(count) == TRUE

\* The capacity assertion at the head of the byte loop's body.
calldata_within_capacity(count) == count < max_calldata

\* One iteration of `for (i, tx) in self.txs.iter().enumerate()` of the
\* calldata part, with its whole byte loop.
AssignTxCallData ==
    /\ pc = "calldata"
    /\ i < Len(txs)
    /\ LET calldata_length == Len(txs[i + 1].call_data)
           count == calldata_count + calldata_length
       IN /\ calldata_count' = count
          /\ IF calldata_length > 0 /\ ~calldata_within_capacity(count)
             THEN /\ pc' = "panic"
                  /\ UNCHANGED <<table, q_calldata_first>>
             ELSE /\ pc' = pc
                  /\ table' = table \o calldata_rows(i)
                  /\ q_calldata_first' =
                        IF i = 0 /\ calldata_length > 0
                        THEN q_calldata_first \cup {offset}
                        ELSE q_calldata_first
    /\ i' = i + 1
    /\ UNCHANGED <<inputs, builder, block_table, padding_txs, sign_datas, q_first, q_calldata_last,
                   num_all_txs_acc, total_l1_popped_before, total_l1_popped_after,
                   last_off>>

\* End of the first region: the final capacity assertion, q_calldata_last
\* when the calldata fills the region, and the returned offset.
CallDataDone ==
    /\ pc = "calldata"
    /\ i = Len(txs)
    /\ IF calldata_count <= max_calldata
       THEN /\ q_calldata_last' =
                  IF offset = max_txs * TX_LEN + max_calldata + 1
                  THEN q_calldata_last \cup {max_txs * TX_LEN + max_calldata}
                  ELSE q_calldata_last
            /\ last_off' = offset
            /\ pc' = "zeros"
       ELSE /\ pc' = "panic"
            /\ UNCHANGED <<q_calldata_last, last_off>>
    /\ UNCHANGED <<inputs, builder, block_table, padding_txs, sign_datas, table, q_first, q_calldata_first, i,
                   num_all_txs_acc, total_l1_popped_before, total_l1_popped_after,
                   calldata_count>>

\* The second region ("calldata zeros and paddings"), laid out right after
\* the first one: its row 0 is circuit offset last_off.  The end of the
\* paddings, size - minimum_rows - last_off, is an unsigned subtraction: when
\* it would go below zero the build with overflow checks panics and the build
\* without them wraps and runs the padding loop off the region (an error).
AssignZerosAndPaddings ==
    /\ pc = "zeros"
    /\ LET zeros_end == max_calldata + max_txs * TX_LEN + 1 - last_off
           paddings_end == size - minimum_rows - last_off
       IN IF paddings_end < 0
          THEN /\ pc' \in {"panic", "error"}
               /\ UNCHANGED <<table, q_calldata_first, q_calldata_last>>
          ELSE /\ q_calldata_first' =
                     IF last_off = max_txs * TX_LEN + 1
                     THEN q_calldata_first \cup {last_off + 0}
                     ELSE q_calldata_first
               /\ q_calldata_last' =
                     IF last_off < max_txs * TX_LEN + 1 + max_calldata
                     THEN q_calldata_last \cup
                            {last_off + (max_calldata - (last_off - max_txs * TX_LEN - 1) - 1)}
                     ELSE q_calldata_last
               /\ table' = table \o [k \in 1..zeros_end |-> calldata_zero_row]
                                 \o [k \in 1..(paddings_end - zeros_end) |-> padding_row]
               /\ pc' = "done"
    /\ UNCHANGED <<inputs, builder, block_table, padding_txs, sign_datas, q_first, i, num_all_txs_acc,
                   total_l1_popped_before, total_l1_popped_after, calldata_count,
                   last_off>>

Next ==
    \/ AssignDevBlockTable
    \/ SynthesizeSub
    \/ AssignEmptyEntry
    \/ AssignTxFixed
    \/ FixedDone
    \/ AssignTxCallData
    \/ CallDataDone
    \/ AssignZerosAndPaddings

Spec == Init /\ [][Next]_vars

(***************************************************************************)
(* TxCircuit::new and SubCircuit::new_from_block                           *)
(***************************************************************************)
ChainIds == {Sample.chain_id, Sample.chain_id + 1}

\* Witness blocks whose transactions vary in number and chain id.
Blocks ==
    UNION {
      [chain_id : ChainIds,
       circuits_params : [max_txs : 0..MaxTxs, max_calldata : {0, MaxCalldata}],
       start_l1_queue_index : {0, 1},
       txs : { [k \in 1..n |->
                  [MkTx(k, "Eip155", k - 1, Sample.block, <<>>)
                      EXCEPT !.chain_id = c[k], !.v = 2 * c[k] + 35]] :
               c \in [1..n -> ChainIds] }] :
      n \in 0..MaxTxs }

\* The fields of the circuit TxCircuit::new returns (size is derived).
new(max_txs_, max_calldata_, chain_id_, start_l1_queue_index_, txs_) ==
    [max_txs |-> max_txs_, max_calldata |-> max_calldata_, txs |-> txs_,
     chain_id |-> chain_id_, start_l1_queue_index |-> start_l1_queue_index_]

\* Mutant: no transaction is taken for inconsistent.
inconsistent_chain_id_never(tx) == FALSE

\* The test of new_from_block's loop on one transaction of the block.
inconsistent_chain_id(tx) == tx.chain_id # block[1].chain_id

\* No circuit has been constructed yet: a block waits for new_from_block.
InitBlock ==
    /\ block \in {Some(b) : b \in Blocks}
    /\ txs = <<>>
    /\ max_txs = 0
    /\ max_calldata = 0
    /\ start_l1_queue_index = 0
    /\ chain_id = 0
    /\ keccak_input \in Challenges
    /\ pc = "new_from_block"
    /\ padding_txs = <<>>
    /\ sign_datas = <<>>
    /\ table = <<>>
    /\ q_first = {}
    /\ q_calldata_first = {}
    /\ q_calldata_last = {}
    /\ i = 0
    /\ num_all_txs_acc = 0
    /\ total_l1_popped_before = 0
    /\ total_l1_popped_after = 0
    /\ calldata_count = 0
    /\ last_off = 0
    /\ block_table = <<>>
    /\ builder = None

\* One iteration of `for tx in &block.txs` of new_from_block.
CheckChainId ==
    /\ pc = "new_from_block"
    /\ i < Len(block[1].txs)
    /\ IF inconsistent_chain_id(block[1].txs[i + 1])
       THEN pc' = "panic_inconsistent_chain_id" /\ i' = i
       ELSE pc' = pc /\ i' = i + 1
    /\ UNCHANGED <<inputs, builder, block_table, padding_txs, sign_datas, table, q_first,
                   q_calldata_first, q_calldata_last, num_all_txs_acc,
                   total_l1_popped_before, total_l1_popped_after, calldata_count,
                   last_off>>

\* The call of TxCircuit::new that ends new_from_block.  Its
\* debug_assert!(txs.len() <= max_txs) is compiled in or out by the build.
NewCircuit ==
    /\ pc = "new_from_block"
    /\ i = Len(block[1].txs)
    /\ \E debug_assertions \in BOOLEAN :
          LET b == block[1]
              c == new(b.circuits_params.max_txs, b.circuits_params.max_calldata,
                       b.chain_id, b.start_l1_queue_index, b.txs)
          IN IF debug_assertions /\ ~(Len(b.txs) <= b.circuits_params.max_txs)
             THEN /\ pc' = "panic"
                  /\ UNCHANGED <<txs, max_txs, max_calldata, start_l1_queue_index,
                                 chain_id, i>>
             ELSE /\ pc' = "start"
                  /\ txs' = c.txs
                  /\ max_txs' = c.max_txs
                  /\ max_calldata' = c.max_calldata
                  /\ start_l1_queue_index' = c.start_l1_queue_index
                  /\ chain_id' = c.chain_id
                  /\ i' = 0
    /\ UNCHANGED <<block, keccak_input, builder, block_table, padding_txs, sign_datas, table,
                   q_first, q_calldata_first, q_calldata_last, num_all_txs_acc,
                   total_l1_popped_before, total_l1_popped_after, calldata_count,
                   last_off>>

NextBlock ==
    \/ CheckChainId
    \/ NewCircuit

SpecBlock == InitBlock /\ [][NextBlock]_vars

(***************************************************************************)
(* state_circuit::constraint_builder: expressions                          *)
(***************************************************************************)
\* The field, stood in for by the integers modulo a small prime.
FieldModulus == 13
FieldElements == 0..(FieldModulus - 1)

\* halo2 Expression: constants, column queries, and the operators `*`, `+`,
\* unary `-`; `a - b` builds Sum(a, Negated(b)); n.expr() is Constant(n).
Constant(n) == <<"Constant", n>>
Query(name) == <<"Query", name>>
Product(a, b) == <<"Product", a, b>>
Sum(a, b) == <<"Sum", a, b>>
Negated(a) == <<"Negated", a>>
Sub(a, b) == Sum(a, Negated(b))

RECURSIVE FieldProduct(_)
\* The product of the members of a set of field elements.
FieldProduct(S) ==
    IF S = {} THEN 1
    ELSE LET x == CHOOSE y \in S : TRUE
         IN (x * FieldProduct(S \ {x})) % FieldModulus

\* The inverse of a nonzero field element.
FieldInverse(x) == CHOOSE y \in FieldElements : (x * y) % FieldModulus = 1

\* generate_lagrange_base_polynomial(exp, val, range) at exp = x: the
\* product over the other members j of the range of (x - j) / (val - j).
LagrangeBase(x, val, range) ==
    LET others == range \ {val}
        numerator == FieldProduct({(x + FieldModulus - j) % FieldModulus : j \in others})
        denominator == FieldProduct({(val + FieldModulus - j) % FieldModulus : j \in others})
    IN (numerator * FieldInverse(denominator)) % FieldModulus

\* RwTableTag and AccountFieldTag, in declaration order.
RwTableTags == <<"Start", "Stack", "Memory", "AccountStorage", "TxAccessListAccount",
                 "TxAccessListAccountStorage", "TxRefund", "Account",
                 "AccountDestructed", "CallContext", "TxLog", "TxReceipt">>
AccountFieldTags == <<"Nonce", "Balance", "KeccakCodeHash", "CodeSize", "NonExisting">>
N_LIMBS_ACCOUNT_ADDRESS == 10

\* `tag as usize`.
TagValue(tag) == CHOOSE k \in 1..Len(RwTableTags) : RwTableTags[k] = tag

\* Queries::tag_matches(tag) on a row whose tag column holds x.
TagMatchesAt ==
    [x \in FieldElements, k \in 1..Len(RwTableTags) |->
        LagrangeBase(x, k, 1..Len(RwTableTags))]

RECURSIVE Eval(_, _)
\* The value of an expression on a row (a function from query names to
\* field elements; a query the row does not name reads 0).  The query of
\* tag_matches(tag) is the Lagrange base polynomial of the row's tag.
Eval(e, row) ==
    CASE e[1] = "Constant" -> e[2] % FieldModulus
      [] e[1] = "Query" /\ e[2] = "tag_matches" ->
            TagMatchesAt[IF "tag" \in DOMAIN row THEN row["tag"] ELSE 0, TagValue(e[3])]
      [] e[1] = "Query" -> IF e[2] \in DOMAIN row THEN row[e[2]] ELSE 0
      [] e[1] = "Product" -> (Eval(e[2], row) * Eval(e[3], row)) % FieldModulus
      [] e[1] = "Sum" -> (Eval(e[2], row) + Eval(e[3], row)) % FieldModulus
      [] e[1] = "Negated" -> (FieldModulus - Eval(e[2], row)) % FieldModulus

(***************************************************************************)
(* ConstraintBuilder                                                       *)
(***************************************************************************)
\* ConstraintBuilder::new().
ConstraintBuilder_new ==
    [constraints |-> <<>>, lookups |-> <<>>, condition |-> Constant(1)]

\* Mutant: the constraint is registered without the active condition.
require_zero_unconditional(self, name, e) ==
    [self EXCEPT !.constraints = Append(@, <<name, e>>)]

require_zero(self, name, e) ==
    [self EXCEPT !.constraints = Append(@, <<name, Product(self.condition, e)>>)]

require_equal(self, name, a, b) == require_zero(self, name, Sub(a, b))

require_boolean(self, name, e) ==
    require_zero(self, name, Product(e, Sub(Constant(1), e)))

RECURSIVE fold_in_set(_, _, _)
\* set.iter().fold(acc, |acc, element| acc * (item - element)).
fold_in_set(acc, item, set) ==
    IF set = <<>> THEN acc
    ELSE fold_in_set(Product(acc, Sub(item, Head(set))), item, Tail(set))

\* Mutant: the first member of the set is skipped.
require_in_set_skips_first(self, name, item, set) ==
    require_zero(self, name,
                 fold_in_set(Constant(1), item, IF set = <<>> THEN set ELSE Tail(set)))

require_in_set(self, name, item, set) ==
    require_zero(self, name, fold_in_set(Constant(1), item, set))

\* Mutant: the key is pushed as given.
add_lookup_ungated(self, name, lookup) ==
    [self EXCEPT !.lookups = Append(@, <<name, lookup>>)]

add_lookup(self, name, lookup) ==
    [self EXCEPT !.lookups =
        Append(@, <<name, <<Product(lookup[1], self.condition), lookup[2]>>>>)]

\* condition(), up to the call of its body: the new active condition.
condition_open(self, sub) ==
    [self EXCEPT !.condition = Product(self.condition, sub)]

\* Mutant: the condition of the body stays active after it.
condition_close_keeps(self, original_condition) == self

\* condition(), after its body: `self.condition = original_condition`.
condition_close(self, original_condition) ==
    [self EXCEPT !.condition = original_condition]

\* Mutant: the selector is left out.
gate_unselected(self, selector) ==
    [k \in 1..Len(self.constraints) |-> self.constraints[k]]

gate(self, selector) ==
    [k \in 1..Len(self.constraints) |->
        <<self.constraints[k][1], Product(selector, self.constraints[k][2])>>]

lookups(self) == self.lookups

(***************************************************************************)
(* ConstraintBuilder::build                                                *)
(***************************************************************************)
\* The calls a body makes, as data.
OpRequireZero(name, e) == [op |-> "require_zero", name |-> name, e |-> e]
OpRequireEqual(name, a, b) == [op |-> "require_equal", name |-> name, a |-> a, b |-> b]
OpRequireBoolean(name, e) == [op |-> "require_boolean", name |-> name, e |-> e]
OpRequireInSet(name, item, set) ==
    [op |-> "require_in_set", name |-> name, item |-> item, set |-> set]
OpAddLookup(name, lookup) == [op |-> "add_lookup", name |-> name, lookup |-> lookup]
OpCondition(sub, body) == [op |-> "condition", sub |-> sub, body |-> body]

\* set::<F, T>(): the members of an enum as constant expressions.
set(tags) == [k \in 1..Len(tags) |-> Constant(k)]

\* Queries::tag_matches(tag), the Lagrange base polynomial of the tag, kept
\* as one query.
tag_matches(tag) == <<"Query", "tag_matches", tag>>

\* not::expr(b), or::expr([a, b]) and select::expr(selector, when_true,
\* when_false) of the gadgets crate.
not_expr(b) == Sub(Constant(1), b)
or_expr(a, b) == not_expr(Product(Product(Constant(1), not_expr(a)), not_expr(b)))
select_expr(selector, when_true, when_false) ==
    Sum(Product(selector, when_true), Product(Sub(Constant(1), selector), when_false))

\* Mutant: only the upper limb difference is looked at.
first_access_upper_limb_only ==
    or_expr(not_expr(Query("lexicographic_ordering_upper_limb_difference_is_zero")),
            not_expr(Query("lexicographic_ordering_upper_limb_difference_is_zero")))

\* upper diff changed OR storage key changed.
first_access ==
    or_expr(not_expr(Query("lexicographic_ordering_upper_limb_difference_is_zero")),
            not_expr(Query("is_storage_key_unchanged")))

\* The right-hand side of "prev value".
expected_value_prev ==
    Sum(Sum(Product(Sum(Sum(Sum(tag_matches("TxAccessListAccount"),
                                tag_matches("TxAccessListAccountStorage")),
                            tag_matches("AccountDestructed")),
                        tag_matches("TxRefund")),
                    select_expr(first_access, Constant(0), Query("value_at_prev_rotation"))),
            Product(tag_matches("Account"),
                    select_expr(first_access, Query("value_prev"),
                                Query("value_at_prev_rotation")))),
        Product(tag_matches("AccountStorage"),
                select_expr(first_access, Query("aux2"), Query("value_at_prev_rotation"))))

build_general_constraints ==
    << OpRequireInSet("tag in RwTableTag range", Query("tag"), set(RwTableTags)),
       OpRequireBoolean("is_write is boolean", Query("is_write")),
       OpRequireEqual("prev value", Query("value_prev"), expected_value_prev),
       OpRequireEqual("rw table rlc", Query("rw_rlc"), Query("rlc of the rw fields")) >>

build_start_constraints ==
    << OpRequireZero("rw_counter is 0 for Start", Query("rw_counter")) >>

build_memory_constraints ==
    << OpRequireZero("field_tag is 0 for Memory", Query("field_tag")),
       OpRequireZero("storage_key is 0 for Memory", Query("storage_key")),
       OpRequireZero("read from a fresh key is 0",
                     Product(Product(first_access, Sub(Constant(1), Query("is_write"))),
                             Query("value"))) >>
    \o [k \in 1..(N_LIMBS_ACCOUNT_ADDRESS - 2) |->
          OpRequireZero("memory address fits into 2 limbs",
                        <<"Query", "address.limbs", k + 1>>)]
    \o << OpAddLookup("memory value is a byte", <<Query("value"), Query("lookups.u8")>>) >>

build_stack_constraints ==
    << OpRequireZero("field_tag is 0 for Stack", Query("field_tag")),
       OpRequireZero("storage_key is 0 for Stack", Query("storage_key")),
       OpRequireZero("first access to new stack address is a write",
                     Product(first_access, Sub(Constant(1), Query("is_write")))),
       OpAddLookup("stack address fits into 10 bits",
                   <<Query("address"), Query("lookups.u10")>>),
       OpCondition(Query("is_id_unchanged"),
                   << OpRequireBoolean("if call id is the same, address change is 0 or 1",
                                       Sub(Query("address"), Query("address_prev"))) >>),
       OpRequireZero("prev_value is 0 when keys changed",
                     Product(first_access, Query("value_prev"))) >>

build_account_storage_constraints ==
    << OpRequireZero("field_tag is 0 for AccountStorage", Query("field_tag")) >>

build_tx_access_list_account_constraints ==
    << OpRequireZero("field_tag is 0 for TxAccessListAccount", Query("field_tag")),
       OpRequireZero("storage_key is 0 for TxAccessListAccount", Query("storage_key")),
       OpRequireZero("prev_value is 0 when keys changed",
                     Product(first_access, Query("value_prev"))) >>

build_tx_access_list_account_storage_constraints ==
    << OpRequireZero("field_tag is 0 for TxAccessListAccountStorage", Query("field_tag")),
       OpRequireZero("prev_value is 0 when keys changed",
                     Product(first_access, Query("value_prev"))) >>

build_tx_refund_constraints ==
    << OpRequireZero("address is 0 for TxRefund", Query("address")),
       OpRequireZero("field_tag is 0 for TxRefund", Query("field_tag")),
       OpRequireZero("storage_key is 0 for TxRefund", Query("storage_key")),
       OpRequireZero("prev_value is 0 when keys changed",
                     Product(first_access, Query("value_prev"))) >>

build_account_constraints ==
    << OpRequireZero("id is 0 for Account", Query("id")),
       OpRequireZero("storage_key is 0 for Account", Query("storage_key")),
       OpRequireInSet("field_tag in AccountFieldTag range", Query("field_tag"),
                      set(AccountFieldTags)) >>

build_account_destructed_constraints ==
    << OpRequireZero("id is 0 for AccountDestructed", Query("id")),
       OpRequireZero("field_tag is 0 for AccountDestructed", Query("field_tag")),
       OpRequireZero("storage_key is 0 for AccountDestructed", Query("storage_key")) >>

build_call_context_constraints ==
    << OpRequireZero("address is 0 for CallContext", Query("address")),
       OpRequireZero("storage_key is 0 for CallContext", Query("storage_key")),
       OpAddLookup("field_tag in CallContextFieldTag range",
                   <<Query("field_tag"), Query("lookups.call_context_field_tag")>>) >>

\* The body of build(q): the general constraints, then one condition per tag.
build ==
    build_general_constraints \o
    << OpCondition(tag_matches("Start"), build_start_constraints),
       OpCondition(tag_matches("Memory"), build_memory_constraints),
       OpCondition(tag_matches("Stack"), build_stack_constraints),
       OpCondition(tag_matches("AccountStorage"), build_account_storage_constraints),
       OpCondition(tag_matches("TxAccessListAccount"),
                   build_tx_access_list_account_constraints),
       OpCondition(tag_matches("TxAccessListAccountStorage"),
                   build_tx_access_list_account_storage_constraints),
       OpCondition(tag_matches("TxRefund"), build_tx_refund_constraints),
       OpCondition(tag_matches("Account"), build_account_constraints),
       OpCondition(tag_matches("AccountDestructed"), build_account_destructed_constraints),
       OpCondition(tag_matches("CallContext"), build_call_context_constraints) >>

(***************************************************************************)
(* A builder and its caller                                                *)
(***************************************************************************)
\* The calls a caller other than build may make, by method.
CallNames == {"a", "b"}
CallExprs == {Query("x"), Sub(Query("x"), Constant(1))}
CallSubs == {Query("c1"), Query("c2")}
CallSets == {<<>>, <<Constant(1)>>, <<Constant(1), Constant(3)>>, <<Constant(2), Constant(2)>>}
Calls(method) ==
    CASE method = "require_zero" ->
            {OpRequireZero(n, e) : n \in CallNames, e \in CallExprs}
      [] method = "require_equal" -> {OpRequireEqual("eq", Query("x"), Constant(2))}
      [] method = "require_boolean" -> {OpRequireBoolean("bool", Query("x"))}
      [] method = "require_in_set" ->
            {OpRequireInSet("in", Query("x"), S) : S \in CallSets}
      [] method = "add_lookup" -> {OpAddLookup("lk", <<Query("x"), Query("t")>>)}
      [] method = "condition" -> {OpCondition(c, <<>>) : c \in CallSubs}

\* No builder call is running: neither build nor a body of condition.
AtTopLevel == builder.frames = <<>> /\ builder.script = <<>>

\* The calls of `method` that may come next: the next call of the running
\* body of build, or any call of a caller that has calls left.
NextCalls(method) ==
    IF builder.mode = "build"
    THEN IF builder.script # <<>> /\ Head(builder.script).op = method
         THEN {Head(builder.script)} ELSE {}
    ELSE IF builder.calls < MaxCalls THEN Calls(method) ELSE {}

\* The caller's state after call c has left the builder as cb.
After(c, cb) ==
    [builder EXCEPT !.cb = cb, !.before = builder.cb, !.last = c,
                    !.calls = @ + 1, !.returned = <<>>,
                    !.script = IF builder.mode = "build" THEN Tail(@) ELSE @]

InitBuilder ==
    /\ builder = [cb |-> ConstraintBuilder_new, before |-> ConstraintBuilder_new,
                  last |-> [op |-> "new"], returned |-> <<>>, frames |-> <<>>,
                  script |-> <<>>, mode |-> "calls", calls |-> 0]
    /\ block = None
    /\ txs = <<>>
    /\ max_txs = 0
    /\ max_calldata = 0
    /\ start_l1_queue_index = 0
    /\ chain_id = 0
    /\ keccak_input \in Challenges
    /\ pc = "constraint_builder"
    /\ padding_txs = <<>>
    /\ sign_datas = <<>>
    /\ table = <<>>
    /\ q_first = {}
    /\ q_calldata_first = {}
    /\ q_calldata_last = {}
    /\ i = 0
    /\ num_all_txs_acc = 0
    /\ total_l1_popped_before = 0
    /\ total_l1_popped_after = 0
    /\ calldata_count = 0
    /\ last_off = 0
    /\ block_table = <<>>

\* build(q) is called on the fresh builder.
Build ==
    /\ pc = "constraint_builder"
    /\ builder.mode = "calls" /\ builder.calls = 0 /\ AtTopLevel
    /\ builder' = [builder EXCEPT !.mode = "build", !.script = build,
                                  !.last = [op |-> "build"], !.returned = <<>>]
    /\ UNCHANGED tx_circuit_vars

RequireZero ==
    /\ pc = "constraint_builder"
    /\ \E c \in NextCalls("require_zero") :
          builder' = After(c, require_zero(builder.cb, c.name, c.e))
    /\ UNCHANGED tx_circuit_vars

RequireEqual ==
    /\ pc = "constraint_builder"
    /\ \E c \in NextCalls("require_equal") :
          builder' = After(c, require_equal(builder.cb, c.name, c.a, c.b))
    /\ UNCHANGED tx_circuit_vars

RequireBoolean ==
    /\ pc = "constraint_builder"
    /\ \E c \in NextCalls("require_boolean") :
          builder' = After(c, require_boolean(builder.cb, c.name, c.e))
    /\ UNCHANGED tx_circuit_vars

RequireInSet ==
    /\ pc = "constraint_builder"
    /\ \E c \in NextCalls("require_in_set") :
          builder' = After(c, require_in_set(builder.cb, c.name, c.item, c.set))
    /\ UNCHANGED tx_circuit_vars

AddLookup ==
    /\ pc = "constraint_builder"
    /\ \E c \in NextCalls("add_lookup") :
          builder' = After(c, add_lookup(builder.cb, c.name, c.lookup))
    /\ UNCHANGED tx_circuit_vars

\* condition(sub, body) up to the call of body: the frame keeps
\* original_condition (and what the caller does after the call).
ConditionCall ==
    /\ pc = "constraint_builder"
    /\ Len(builder.frames) < MaxDepth
    /\ \E c \in NextCalls("condition") :
          builder' = [After(c, condition_open(builder.cb, c.sub)) EXCEPT
                         !.frames = Append(@, [original_condition |-> builder.cb.condition,
                                               sub |-> c.sub,
                                               rest |-> IF builder.mode = "build"
                                                        THEN Tail(builder.script)
                                                        ELSE <<>>]),
                         !.script = c.body]
    /\ UNCHANGED tx_circuit_vars

\* The body of the innermost condition() has returned.
ConditionReturn ==
    /\ pc = "constraint_builder"
    /\ builder.frames # <<>>
    /\ builder.script = <<>>
    /\ LET frame == builder.frames[Len(builder.frames)]
       IN builder' = [builder EXCEPT
                         !.cb = condition_close(builder.cb, frame.original_condition),
                         !.before = builder.cb,
                         !.last = [op |-> "condition_return", sub |-> frame.sub,
                                   original_condition |-> frame.original_condition],
                         !.returned = <<>>,
                         !.frames = SubSeq(@, 1, Len(@) - 1),
                         !.script = frame.rest]
    /\ UNCHANGED tx_circuit_vars

\* gate(selector), called from outside the builder.
Gate ==
    /\ pc = "constraint_builder"
    /\ AtTopLevel
    /\ LET selector == Query("q")
       IN builder' = [builder EXCEPT !.before = builder.cb,
                                     !.last = [op |-> "gate", condition |-> selector],
                                     !.returned = gate(builder.cb, selector)]
    /\ UNCHANGED tx_circuit_vars

\* lookups(), called from outside the builder.
Lookups ==
    /\ pc = "constraint_builder"
    /\ AtTopLevel
    /\ builder' = [builder EXCEPT !.before = builder.cb,
                                  !.last = [op |-> "lookups"],
                                  !.returned = lookups(builder.cb)]
    /\ UNCHANGED tx_circuit_vars

NextBuilder ==
    \/ Build
    \/ RequireZero
    \/ RequireEqual
    \/ RequireBoolean
    \/ RequireInSet
    \/ AddLookup
    \/ ConditionCall
    \/ ConditionReturn
    \/ Gate
    \/ Lookups

SpecBuilder == InitBuilder /\ [][NextBuilder]_vars

\* The table has been emitted: assign returned Ok.
Emitted == pc = "done"

(***************************************************************************)
(* The emitted table                                                       *)
(***************************************************************************)
\* The row at circuit offset o.
Row(o) == table[o + 1]
HasRow(o) == o >= 0 /\ o < Len(table)

\* Offsets of header slot s (1-based) and of the whole header.
SlotOffsets(s) == ((s - 1) * TX_LEN + 1)..(s * TX_LEN)
HeaderOffsets == 1..(max_txs * TX_LEN)
Slots == 1..max_txs

\* The per-transaction meta columns.
MetaOf(r) == <<r.tx_type, r.is_padding_tx, r.sv_address, r.block_num,
               r.total_l1_popped_before, r.num_txs, r.cum_num_txs, r.num_all_txs_acc>>

\* Gate "tx_id transition in the fixed part of tx table" on the rows cur, next.
TxIdTransitionGate(cur, next) ==
    (cur.q_enable = 1 /\ next.is_calldata = 0) =>
        IF next.tag = "Nonce"
        THEN next.tx_id = cur.tx_id + 1
        ELSE next.tx_id = cur.tx_id /\ MetaOf(next) = MetaOf(cur)

\* C1 (copy-forward): in the emitted table all TX_LEN rows of every header
\* slot, real or padding, carry the same values of the meta columns tx_type,
\* is_padding_tx, sv_address, block_num, total_l1_popped_before, num_txs,
\* cum_num_txs and num_all_txs_acc, and the tx_id transition gate holds on
\* every header row.
C1_CopyForward ==
    Emitted =>
        /\ \A s \in Slots : \A o1, o2 \in SlotOffsets(s) : MetaOf(Row(o1)) = MetaOf(Row(o2))
        /\ \A o \in HeaderOffsets : HasRow(o + 1) => TxIdTransitionGate(Row(o), Row(o + 1))

\* A table with a real slot in the second block followed by a padding slot.
C1_Witness ==
    /\ Emitted
    /\ Len(txs) >= 2 /\ max_txs > Len(txs)
    /\ \E o \in SlotOffsets(2) : Row(o).block_num # Row(1).block_num /\ Row(o).is_l1_msg = 1

\* C2 (sequence monotonicity): for every header row whose next row is a
\* header row, the next tx_id is tx_id + 1 when the next tag is Nonce and
\* tx_id otherwise; header slot i has tx_id = i on all its rows.
C2_SequenceMonotonic ==
    Emitted =>
        /\ \A o \in HeaderOffsets : (o + 1) \in HeaderOffsets =>
              Row(o + 1).tx_id = IF Row(o + 1).tag = "Nonce"
                                 THEN Row(o).tx_id + 1
                                 ELSE Row(o).tx_id
        /\ \A s \in Slots : \A o \in SlotOffsets(s) : Row(o).tx_id = s
        /\ \A s \in Slots : (s + 1) \in Slots => Row(s * TX_LEN + 1).tx_id = s + 1

\* A table of three slots whose slot boundaries carry the Nonce tag.
C2_Witness ==
    /\ Emitted
    /\ max_txs >= 3
    /\ Row(TX_LEN + 1).tag = "Nonce" /\ Row(TX_LEN).tag = "BlockNumber"
    /\ Row(2 * TX_LEN + 1).tx_id = 3

\* C3: for max_txs >= 1, row 0 of the emitted table is the sentinel (tag
\* Null, tx_id 0, value 0, q_first = 1), row 1 has tx_id = 1, and q_first is
\* set on row 0 only.
C3_Sentinel ==
    (Emitted /\ max_txs >= 1) =>
        /\ Row(0).tag = "Null" /\ Row(0).tx_id = 0 /\ Row(0).value = 0
        /\ q_first = {0}
        /\ Row(1).tx_id = 1

\* A table with at least one slot whose first header row follows the sentinel.
C3_Witness ==
    Emitted /\ max_txs >= 1 /\ Row(0).tag = "Null" /\ Row(1).tag = "Nonce" /\ Len(txs) = 0

(***************************************************************************)
(* The calldata region of the emitted table                                *)
(***************************************************************************)
CalldataOffsets == (max_txs * TX_LEN + 1)..(max_txs * TX_LEN + max_calldata)

\* The calldata rows carrying tx_id t, in table order.
CalldataRowsOf(t) == SelectSeq(table, LAMBDA r : r.tag = "CallData" /\ r.tx_id = t)

\* The header row of slot s with the given tag.
HeaderRowOf(s, tag) == Row(CHOOSE o \in SlotOffsets(s) : Row(o).tag = tag)

\* The transaction of slot s (1-based) of the emitted table.
TxOfSlot(s) == slot_tx(s - 1)

\* Sum over the first k bytes of (4 if the byte is 0 else 16).
GasOfPrefix(bytes, k) ==
    4 * Cardinality({j \in 1..k : bytes[j] = 0}) + 16 * Cardinality({j \in 1..k : bytes[j] # 0})

RECURSIVE PolyOfPrefix(_, _, _, _)
\* Sum over j in 1..m of bytes[j] * r^(k - j): the Horner fold of the first k
\* bytes written out as a polynomial in r (m = k gives the whole sum).
PolyOfPrefix(bytes, k, m, r) ==
    IF m = 0 THEN 0 ELSE PolyOfPrefix(bytes, k, m - 1, r) + bytes[m] * r ^ (k - m)

\* C4 (calldata gas-cost accumulator): for every transaction with calldata
\* bytes b[0..n), n >= 1, its k-th calldata row has calldata_gas_cost_acc =
\* sum over i <= k of (4 if b[i] = 0 else 16); the first row of its run
\* carries the first byte's own cost and the row marked final carries the
\* transaction's total.
C4_GasCostAcc ==
    Emitted =>
        \A t \in 1..Len(txs) :
            LET b == txs[t].call_data
                rows == CalldataRowsOf(t)
            IN Len(b) >= 1 =>
                 /\ \A k \in 1..Len(b) :
                       k <= Len(rows) /\ rows[k].calldata_gas_cost_acc = GasOfPrefix(b, k)
                 /\ rows[1].calldata_gas_cost_acc = (IF b[1] = 0 THEN 4 ELSE 16)
                 /\ \A k \in 1..Len(rows) :
                       rows[k].is_final = 1 =>
                          rows[k].calldata_gas_cost_acc = GasOfPrefix(b, Len(b))

\* Two runs follow each other: <<0, 1>> (4 then 20) and a later non-empty one.
C4_Witness ==
    /\ Emitted
    /\ \E t \in 1..Len(txs) : \E u \in 1..Len(txs) :
          /\ t < u /\ txs[t].call_data = <<0, 1>> /\ txs[u].call_data # <<>>
          /\ Len(CalldataRowsOf(t)) = 2
          /\ CalldataRowsOf(t)[2].calldata_gas_cost_acc = 20
          /\ CalldataRowsOf(u)[1].calldata_gas_cost_acc = byte_gas_cost(txs[u].call_data[1])

\* C5 (calldata fingerprint accumulator): the calldata_rlc on the k-th
\* calldata row of a transaction is the Horner fold of b[0..k] with the
\* keccak-input challenge as base (b[0] on the first row), and the value on
\* the final row equals the value of the transaction's CallDataRLC header row.
C5_CalldataRlc ==
    Emitted =>
        \A t \in 1..Len(txs) :
            LET b == txs[t].call_data
                rows == CalldataRowsOf(t)
            IN Len(b) >= 1 =>
                 /\ \A k \in 1..Len(b) :
                       k <= Len(rows) /\ rows[k].calldata_rlc = PolyOfPrefix(b, k, k, keccak_input)
                 /\ rows[1].calldata_rlc = b[1]
                 /\ \A k \in 1..Len(rows) :
                       rows[k].is_final = 1 =>
                          rows[k].calldata_rlc = HeaderRowOf(t, "CallDataRLC").value

\* A two-byte run whose first byte is not zero, so the challenge enters.
C5_Witness ==
    /\ Emitted
    /\ \E t \in 1..Len(txs) :
          /\ txs[t].call_data = <<7, 0>>
          /\ Len(CalldataRowsOf(t)) = 2
          /\ CalldataRowsOf(t)[2].is_final = 1
          /\ CalldataRowsOf(t)[2].calldata_rlc = 7 * keccak_input
          /\ HeaderRowOf(t, "CallDataRLC").value = 7 * keccak_input

\* C6: a real transaction with n >= 1 calldata bytes has exactly n calldata
\* rows, at positions 0..n-1 in byte order; exactly one is final, the one at
\* position n-1; none is at a position >= n.
C6_CalldataRows ==
    Emitted =>
        \A t \in 1..Len(txs) :
            LET b == txs[t].call_data
                rows == CalldataRowsOf(t)
            IN Len(b) >= 1 =>
                 /\ Len(rows) = Len(b)
                 /\ \A k \in 1..Len(rows) :
                       /\ rows[k].index = k - 1
                       /\ rows[k].value = b[k]
                       /\ rows[k].index < Len(b)
                       /\ (rows[k].is_final = 1) <=> (k = Len(b))
                 /\ Cardinality({k \in 1..Len(rows) : rows[k].is_final = 1}) = 1

\* A one-byte run and a two-byte run in the same table.
C6_Witness ==
    /\ Emitted
    /\ \E t, u \in 1..Len(txs) :
          /\ Len(txs[t].call_data) = 1 /\ Len(txs[u].call_data) = 2
          /\ Len(CalldataRowsOf(t)) = 1 /\ Len(CalldataRowsOf(u)) = 2
          /\ CalldataRowsOf(u)[2].is_final = 1

\* C7 (zero-length calldata): a transaction with no calldata bytes has no
\* calldata rows; its CallDataRLC row has is_none = 1 and value 0, its
\* CallDataLength and CallDataGasCost rows read 0, and the TxCalldata lookup
\* condition is 0 on its CallDataLength row.
C7_ZeroLengthCalldata ==
    Emitted =>
        \A s \in Slots :
            TxOfSlot(s).call_data = <<>> =>
                /\ CalldataRowsOf(s) = <<>>
                /\ HeaderRowOf(s, "CallDataRLC").is_none = 1
                /\ HeaderRowOf(s, "CallDataRLC").value = 0
                /\ HeaderRowOf(s, "CallDataLength").value = 0
                /\ HeaderRowOf(s, "CallDataGasCost").value = 0
                /\ "TxCalldata" \notin HeaderRowOf(s, "CallDataLength").conditions

\* A real transaction without calldata between two that have some.
C7_Witness ==
    /\ Emitted
    /\ Len(txs) = 3
    /\ txs[1].call_data # <<>> /\ txs[2].call_data = <<>> /\ txs[3].call_data # <<>>
    /\ HeaderRowOf(2, "CallDataLength").value = 0
    /\ "TxCalldata" \in HeaderRowOf(1, "CallDataLength").conditions

\* The id of the first transaction after t that has calldata, or 0.
LaterCalldataTx(t) ==
    LET S == {u \in (t + 1)..Len(txs) : txs[u].call_data # <<>>}
    IN IF S = {} THEN 0 ELSE CHOOSE u \in S : \A v \in S : u <= v

\* Non-final rows keep the tx_id, and no nonzero tx_id follows a tx_id = 0 row;
\* the nonzero tx_ids never decrease, so each transaction's rows are one run.
CalldataRunsOrdered ==
    /\ \A o \in CalldataOffsets : (o + 1) \in CalldataOffsets =>
          (Row(o).is_final = 0 => Row(o + 1).tx_id = Row(o).tx_id)
    /\ \A o1, o2 \in CalldataOffsets :
          (o1 < o2 /\ Row(o1).tx_id = 0) => Row(o2).tx_id = 0
    /\ \A o1, o2 \in CalldataOffsets :
          (o1 < o2 /\ Row(o2).tx_id # 0) => Row(o1).tx_id <= Row(o2).tx_id

\* C8 as stated: in the calldata region tx_id is unchanged after a non-final
\* row, changes after every row marked final, the tx_id after a final row is
\* the id of the next later transaction with calldata (or 0), and no nonzero
\* tx_id follows the first tx_id = 0 row.
C8_Original ==
    Emitted =>
        /\ CalldataRunsOrdered
        /\ \A o \in CalldataOffsets : (o + 1) \in CalldataOffsets =>
              (Row(o).is_final = 1 =>
                  /\ Row(o + 1).tx_id # Row(o).tx_id
                  /\ Row(o + 1).tx_id = LaterCalldataTx(Row(o).tx_id))

\* C8 (amended): as stated, with the two conditions on final rows restricted
\* to the final rows of transactions (tx_id # 0); the zero rows that fill the
\* region are marked final too and all carry tx_id 0.
C8_CalldataRuns ==
    Emitted =>
        /\ CalldataRunsOrdered
        /\ \A o \in CalldataOffsets : (o + 1) \in CalldataOffsets =>
              ((Row(o).is_final = 1 /\ Row(o).tx_id # 0) =>
                  /\ Row(o + 1).tx_id # Row(o).tx_id
                  /\ Row(o + 1).tx_id = LaterCalldataTx(Row(o).tx_id))

\* Calldata of transactions 1 and 3 around a transaction without any, then
\* zero rows: the final row of transaction 1 is followed by tx_id 3.
C8_Witness ==
    /\ Emitted
    /\ Len(txs) = 3
    /\ Len(txs[1].call_data) = 2 /\ txs[2].call_data = <<>> /\ txs[3].call_data # <<>>
    /\ \E o \in CalldataOffsets :
          /\ (o + 1) \in CalldataOffsets
          /\ Row(o).tx_id = 1 /\ Row(o).is_final = 1 /\ Row(o + 1).tx_id = 3
    /\ \E o \in CalldataOffsets :
          /\ (o + 1) \in CalldataOffsets
          /\ Row(o).tx_id = 3 /\ Row(o).is_final = 1 /\ Row(o + 1).tx_id = 0

(***************************************************************************)
(* Block accounting in the emitted table                                   *)
(***************************************************************************)
\* The first row of header slot s.
SlotRow(s) == Row((s - 1) * TX_LEN + 1)

\* What transaction t adds to the count of its block, from its own row.
Contribution(t) ==
    IF txs[t].tx_type = "L1Msg"
    THEN txs[t].nonce - SlotRow(t).total_l1_popped_before + 1
    ELSE 1

\* total_l1_popped_before that transaction t leaves to the next transaction.
PoppedLeftBy(t) ==
    IF txs[t].tx_type = "L1Msg"
    THEN txs[t].nonce + 1
    ELSE SlotRow(t).total_l1_popped_before

\* Transaction t opens a block: it is the first, or its block number differs
\* from the previous transaction's.
OpensBlock(t) == t = 1 \/ txs[t].block_number # txs[t - 1].block_number

\* C9 (block accounting step): an L1 message with queue index q adds
\* q - total_l1_popped_before + 1 to num_all_txs_acc and the next
\* transaction's total_l1_popped_before is q + 1; any other transaction adds
\* 1 and leaves total_l1_popped_before unchanged for the next one; the first
\* transaction's total_l1_popped_before is start_l1_queue_index.
C9_BlockAccountingStep ==
    Emitted =>
        \A t \in 1..Len(txs) :
            /\ t = 1 => SlotRow(t).total_l1_popped_before = start_l1_queue_index
            /\ SlotRow(t).num_all_txs_acc
                  - (IF OpensBlock(t) THEN 0 ELSE SlotRow(t - 1).num_all_txs_acc)
                  = (IF txs[t].tx_type = "L1Msg"
                     THEN txs[t].nonce - SlotRow(t).total_l1_popped_before + 1
                     ELSE 1)
            /\ t + 1 <= max_txs =>
                  SlotRow(t + 1).total_l1_popped_before =
                      IF txs[t].tx_type = "L1Msg"
                      THEN txs[t].nonce + 1
                      ELSE SlotRow(t).total_l1_popped_before

\* Two L1 messages of one block, the second skipping a queue entry, then an
\* L2 transaction, with a queue that does not start at 0.
C9_Witness ==
    /\ Emitted
    /\ Len(txs) = 3 /\ start_l1_queue_index = 1
    /\ txs[1].tx_type = "L1Msg" /\ txs[2].tx_type = "L1Msg" /\ txs[3].tx_type # "L1Msg"
    /\ txs[1].block_number = txs[2].block_number
    /\ txs[2].nonce = SlotRow(2).total_l1_popped_before + 1
    /\ SlotRow(2).num_all_txs_acc = SlotRow(1).num_all_txs_acc + 2
    /\ SlotRow(3).total_l1_popped_before = txs[2].nonce + 1

\* C10 (block-boundary reset): a real transaction whose block number differs
\* from the previous transaction's has num_all_txs_acc equal to its own
\* contribution alone, while its total_l1_popped_before is what the previous
\* transaction left; within a block num_all_txs_acc grows by the contribution
\* and never resets.
C10_BlockBoundaryReset ==
    Emitted =>
        \A t \in 2..Len(txs) :
            IF txs[t].block_number # txs[t - 1].block_number
            THEN /\ SlotRow(t).num_all_txs_acc = Contribution(t)
                 /\ SlotRow(t).total_l1_popped_before = PoppedLeftBy(t - 1)
            ELSE /\ SlotRow(t).num_all_txs_acc = SlotRow(t - 1).num_all_txs_acc + Contribution(t)
                 /\ SlotRow(t).num_all_txs_acc > SlotRow(t - 1).num_all_txs_acc

\* An L1 message closes a block with a count of 2, an L1 message opens the
\* next block with a count of 2 of its own, and a third transaction stays in
\* that block.
C10_Witness ==
    /\ Emitted
    /\ Len(txs) = 3
    /\ txs[1].tx_type = "L1Msg" /\ txs[2].tx_type = "L1Msg"
    /\ txs[2].block_number # txs[1].block_number
    /\ txs[3].block_number = txs[2].block_number
    /\ SlotRow(1).num_all_txs_acc = 2
    /\ SlotRow(2).num_all_txs_acc = 2
    /\ SlotRow(2).total_l1_popped_before = txs[1].nonce + 1
    /\ SlotRow(3).num_all_txs_acc = 3

\* Transactions t, t + 1, t + 2 are L1 messages of one block and t opens it.
ThreeL1MsgsOpenBlock(t) ==
    /\ t + 2 <= Len(txs)
    /\ \A u \in t..(t + 2) : txs[u].tx_type = "L1Msg"
    /\ txs[t + 1].block_number = txs[t].block_number
    /\ txs[t + 2].block_number = txs[t].block_number
    /\ OpensBlock(t)

\* C11 as stated: three consecutive L1 messages of one block with queue
\* indices q1 < q2 < q3, the first with total_l1_popped_before = c, leave
\* num_all_txs_acc = q3 - c + 2 on the third message's rows.
C11_Original ==
    Emitted =>
        \A t \in 1..Len(txs) :
            ThreeL1MsgsOpenBlock(t) =>
                \A o \in SlotOffsets(t + 2) :
                    Row(o).num_all_txs_acc =
                        txs[t + 2].nonce - SlotRow(t).total_l1_popped_before + 2

\* C11 (amended): three consecutive L1 messages that open a block, with queue
\* indices q1 < q2 < q3 and the first with total_l1_popped_before = c, leave
\* num_all_txs_acc = q3 - c + 1 on every row of the third message.
C11_L1QueueAccounting ==
    Emitted =>
        \A t \in 1..Len(txs) :
            ThreeL1MsgsOpenBlock(t) =>
                /\ txs[t].nonce < txs[t + 1].nonce /\ txs[t + 1].nonce < txs[t + 2].nonce
                /\ \A o \in SlotOffsets(t + 2) :
                      Row(o).num_all_txs_acc =
                          txs[t + 2].nonce - SlotRow(t).total_l1_popped_before + 1

\* Three L1 messages of one block, with skipped queue entries before the
\* first and before the third.
C11_Witness ==
    /\ Emitted
    /\ ThreeL1MsgsOpenBlock(1)
    /\ txs[1].nonce = start_l1_queue_index + 1
    /\ txs[2].nonce = txs[1].nonce + 1
    /\ txs[3].nonce = txs[2].nonce + 2
    /\ SlotRow(3).num_all_txs_acc = 5

(***************************************************************************)
(* Block table lookups                                                     *)
(***************************************************************************)
\* The block table holds the row (tag, index, value).
BlockTableHas(tag, index, value) ==
    \E r \in 1..Len(block_table) :
        block_table[r] = [tag |-> tag, index |-> index, value |-> value]

\* Mutant: the lookups are applied on padding rows too.
NumTxsLookupEnabled_on_padding(r) == r.tag = "BlockNumber" /\ r.q_enable = 1

\* Condition of the lookups "num_txs in block table" and "cum_num_txs in
\* block table" on a row.
NumTxsLookupEnabled(r) == r.tag = "BlockNumber" /\ r.is_padding_tx = 0 /\ r.q_enable = 1

\* Condition of the lookup "num_all_txs in block table" on a row: the
\* BlockNumber row of the last transaction of a block.
NumAllTxsLookupEnabled(r) ==
    r.tag = "BlockNumber" /\ r.next_block_num # r.block_num /\ r.is_padding_tx = 0

\* The block numbers of the batch never decrease.
BlocksNonDecreasing ==
    \A t \in 1..(Len(txs) - 1) : txs[t].block_number <= txs[t + 1].block_number

\* Transaction t is the last real transaction of its block.
LastOfBlock(t) == t = Len(txs) \/ txs[t + 1].block_number # txs[t].block_number

\* The num_txs and cum_num_txs lookups of the header find their rows.
CountLookupsMatch ==
    \A o \in HeaderOffsets :
        NumTxsLookupEnabled(Row(o)) =>
            /\ BlockTableHas("NumTxs", Row(o).value, Row(o).num_txs)
            /\ BlockTableHas("CumNumTxs", Row(o).value, Row(o).cum_num_txs)

\* C12 (block-table agreement): for every batch with non-decreasing block
\* numbers and every start_l1_queue_index, the NumTxs, CumNumTxs and NumAllTxs
\* entries of the dev block table for a block number equal num_txs,
\* cum_num_txs and num_all_txs_acc on the BlockNumber row of that block's last
\* real transaction, so every enabled block table lookup finds its row.
C12_BlockTableAgreement ==
    (Emitted /\ BlocksNonDecreasing) =>
        /\ \A t \in 1..Len(txs) :
              LastOfBlock(t) =>
                 LET r == HeaderRowOf(t, "BlockNumber")
                 IN /\ BlockTableHas("NumTxs", txs[t].block_number, r.num_txs)
                    /\ BlockTableHas("CumNumTxs", txs[t].block_number, r.cum_num_txs)
                    /\ BlockTableHas("NumAllTxs", txs[t].block_number, r.num_all_txs_acc)
        /\ CountLookupsMatch
        /\ \A o \in HeaderOffsets :
              NumAllTxsLookupEnabled(Row(o)) =>
                  BlockTableHas("NumAllTxs", Row(o).value, Row(o).num_all_txs_acc)

(***************************************************************************)
(* tx_id against the cumulative count                                      *)
(***************************************************************************)
\* On every row of every real slot tx_id <= cum_num_txs, with equality on the
\* rows of the last real transaction of each block.
TxIdWithinCumNumTxs ==
    \A t \in 1..Len(txs) : \A o \in SlotOffsets(t) :
        /\ Row(o).is_padding_tx = 0
        /\ Row(o).tx_id <= Row(o).cum_num_txs
        /\ LastOfBlock(t) => Row(o).tx_id = Row(o).cum_num_txs

\* C13 as stated: for every non-padding transaction of the emitted table
\* tx_id <= cum_num_txs of its block, and the last non-padding transaction of
\* every block has tx_id = cum_num_txs.
C13_Original == Emitted => TxIdWithinCumNumTxs

\* C13 (amended): the same, for the batches whose block numbers never
\* decrease from one transaction to the next.
C13_TxIdCumNumTxs == (Emitted /\ BlocksNonDecreasing) => TxIdWithinCumNumTxs

\* Two transactions in the first block and one in the second: tx_id 1 is
\* below the cumulative count 2 of its block, tx_ids 2 and 3 meet theirs.
C13_Witness ==
    /\ Emitted /\ BlocksNonDecreasing
    /\ Len(txs) = 3
    /\ txs[1].block_number = txs[2].block_number
    /\ txs[3].block_number > txs[2].block_number
    /\ SlotRow(1).tx_id = 1 /\ SlotRow(1).cum_num_txs = 2
    /\ SlotRow(2).cum_num_txs = 2 /\ SlotRow(3).cum_num_txs = 3

(***************************************************************************)
(* Lookup "block_num is non-decreasing till padding txs"                   *)
(***************************************************************************)
u16_table == 0..(2 ^ 16 - 1)

\* Mutant: the lookup is also applied when the next row is a padding row.
BlockNumLookupEnabled_on_padding(cur, next) ==
    next.is_calldata = 0 /\ cur.tag = "BlockNumber"

\* The lookup condition on the rows cur, next.
BlockNumLookupEnabled(cur, next) ==
    next.is_padding_tx = 0 /\ next.is_calldata = 0 /\ cur.tag = "BlockNumber"

\* The lookup on the rows cur, next.  The difference is a field element: a
\* negative difference is the modulus minus a small number, which is no
\* 16-bit value, as a negative integer is none.
BlockNumLookup(cur, next) ==
    BlockNumLookupEnabled(cur, next) => (next.block_num - cur.block_num) \in u16_table

\* C14: at every BlockNumber row whose next slot is a real transaction the
\* constraints require block_num(next) - block_num(cur) in [0, 2^16): the
\* lookups of an emitted table are all satisfied exactly when every real
\* transaction's block number exceeds its predecessor's by a 16-bit amount,
\* and the lookup is not applied when the next slot is padding or the next
\* row is a calldata row.
C14_BlockNumNonDecreasing ==
    Emitted =>
        /\ (\A o \in HeaderOffsets : BlockNumLookup(Row(o), Row(o + 1)))
             <=> (\A t \in 1..(Len(txs) - 1) :
                     (txs[t + 1].block_number - txs[t].block_number) \in u16_table)
        /\ \A o \in HeaderOffsets :
              (Row(o).tag = "BlockNumber"
                 /\ (Row(o + 1).is_padding_tx = 1 \/ Row(o + 1).is_calldata = 1))
              => ~BlockNumLookupEnabled(Row(o), Row(o + 1))

\* A real transaction with a smaller block number than its predecessor: the
\* lookup fails on the predecessor's BlockNumber row, and it is not applied
\* on the last real transaction's, which a padding slot follows.
C14_Witness ==
    /\ Emitted
    /\ Len(txs) = 2 /\ max_txs = 3
    /\ txs[2].block_number < txs[1].block_number
    /\ ~BlockNumLookup(Row(TX_LEN), Row(TX_LEN + 1))
    /\ Row(2 * TX_LEN).tag = "BlockNumber" /\ Row(2 * TX_LEN + 1).is_padding_tx = 1
    /\ BlockNumLookup(Row(2 * TX_LEN), Row(2 * TX_LEN + 1))

(***************************************************************************)
(* Padding slots                                                           *)
(***************************************************************************)
\* C15: for every batch with txs.len() <= max_txs, synthesis appends exactly
\* max_txs - txs.len() padding transactions, with ids txs.len() + 1 ..
\* max_txs; the header loop writes TX_LEN rows per slot, so the assertion
\* offset = max_txs * TX_LEN + 1 after it never fails; the emitted header has
\* exactly max_txs slots, the real ones in input order followed only by
\* padding slots, and ends at row max_txs * TX_LEN.
C15_PaddingSlots ==
    (Len(txs) <= max_txs /\ pc # "start") =>
        /\ Len(padding_txs) = max_txs - Len(txs)
        /\ \A k \in 1..Len(padding_txs) : padding_txs[k].id = Len(txs) + k
        /\ pc # "error_synthesis" => Len(sign_datas) = max_txs
        /\ pc = "fixed" => offset = i * TX_LEN + 1
        /\ pc \in {"calldata", "zeros", "done"} => Len(table) >= max_txs * TX_LEN + 1
        /\ Emitted =>
              /\ \A s \in Slots : \A o \in SlotOffsets(s) :
                    /\ Row(o).tag = HeaderTags[o - (s - 1) * TX_LEN]
                    /\ Row(o).is_padding_tx = (IF s <= Len(txs) THEN 0 ELSE 1)
                    /\ s <= Len(txs) =>
                          /\ Row(o).tx_nonce = txs[s].nonce
                          /\ Row(o).block_num = txs[s].block_number
              /\ Row(max_txs * TX_LEN + 1).is_calldata = 1

\* One real transaction padded to three slots.
C15_Witness ==
    /\ Emitted
    /\ Len(txs) = 1 /\ max_txs = 3
    /\ Len(padding_txs) = 2 /\ padding_txs[1].id = 2 /\ padding_txs[2].id = 3
    /\ SlotRow(1).is_padding_tx = 0
    /\ SlotRow(2).is_padding_tx = 1 /\ SlotRow(3).is_padding_tx = 1
    /\ Row(3 * TX_LEN).tag = "BlockNumber"

\* Gate "is_padding_tx" on a row: on the CallerAddress row the flag equals
\* value_is_zero.
IsPaddingTxGate(r) ==
    r.q_enable = 1 => (r.tag = "CallerAddress" => r.is_padding_tx = b2i(r.value = 0))

TxIdLeCumNumTxsEnabled(r) == r.q_enable = 1 /\ r.is_padding_tx = 0

\* C17 (padding isolation): every header row of a padding slot carries
\* is_padding_tx = 1, num_txs = 0 and cum_num_txs = 0, and neither a block
\* table lookup (NumTxs, CumNumTxs, NumAllTxs) nor the check
\* tx_id <= cum_num_txs is enabled on it; the counts on the real slots count
\* real transactions only.
C17_PaddingIsolation ==
    Emitted =>
        /\ \A s \in Slots : s > Len(txs) =>
              \A o \in SlotOffsets(s) :
                  /\ Row(o).is_padding_tx = 1
                  /\ Row(o).num_txs = 0
                  /\ Row(o).cum_num_txs = 0
                  /\ ~NumTxsLookupEnabled(Row(o))
                  /\ ~NumAllTxsLookupEnabled(Row(o))
                  /\ ~TxIdLeCumNumTxsEnabled(Row(o))
        /\ \A t \in 1..Len(txs) :
              /\ SlotRow(t).num_txs =
                    Cardinality({u \in 1..Len(txs) : txs[u].block_number = txs[t].block_number})
              /\ SlotRow(t).cum_num_txs <= Len(txs)

\* One real transaction and two padding slots: the lookups are enabled on
\* the real BlockNumber row and on neither padding BlockNumber row, the last
\* of which carries the padding count 2.
C17_Witness ==
    /\ Emitted
    /\ Len(txs) = 1 /\ max_txs = 3
    /\ NumTxsLookupEnabled(Row(TX_LEN)) /\ NumAllTxsLookupEnabled(Row(TX_LEN))
    /\ Row(3 * TX_LEN).tag = "BlockNumber"
    /\ Row(3 * TX_LEN).is_padding_tx = 1
    /\ Row(3 * TX_LEN).num_all_txs_acc = 2
    /\ Row(3 * TX_LEN).cum_num_txs = 0

\* The input of the worked example: one Eip155 transaction, nonce 0,
\* calldata [0x00, 0x01], block 100, two header slots.
OneTxTwoBytes ==
    /\ Len(txs) = 1 /\ max_txs = 2
    /\ txs[1].tx_type = "Eip155" /\ txs[1].nonce = 0
    /\ txs[1].call_data = <<0, 1>> /\ txs[1].block_number = 100

\* C18 (end to end): for one Eip155 transaction with nonce 0 and calldata
\* [0x00, 0x01] in block 100 and max_txs = 2, the table has num_txs = 1 and
\* cum_num_txs = 1 on the transaction's rows, exactly two calldata rows of
\* a transaction, with gas accumulator 4 then 20 (the final one), directly
\* after the header, and one padding slot with tx_id 2 and is_padding_tx = 1.
C18_EndToEnd ==
    (Emitted /\ OneTxTwoBytes) =>
        /\ \A o \in SlotOffsets(1) :
              /\ Row(o).tx_id = 1 /\ Row(o).is_padding_tx = 0
              /\ Row(o).num_txs = 1 /\ Row(o).cum_num_txs = 1
        /\ {o \in CalldataOffsets : Row(o).tx_id # 0}
              = {2 * TX_LEN + 1, 2 * TX_LEN + 2}
        /\ Row(2 * TX_LEN + 1).tag = "CallData" /\ Row(2 * TX_LEN + 2).tag = "CallData"
        /\ Row(2 * TX_LEN + 1).tx_id = 1 /\ Row(2 * TX_LEN + 2).tx_id = 1
        /\ Row(2 * TX_LEN + 1).index = 0 /\ Row(2 * TX_LEN + 2).index = 1
        /\ Row(2 * TX_LEN + 1).value = 0 /\ Row(2 * TX_LEN + 2).value = 1
        /\ Row(2 * TX_LEN + 1).calldata_gas_cost_acc = 4
        /\ Row(2 * TX_LEN + 1).is_final = 0
        /\ Row(2 * TX_LEN + 2).calldata_gas_cost_acc = 20
        /\ Row(2 * TX_LEN + 2).is_final = 1
        /\ {s \in Slots : Row(s * TX_LEN).is_padding_tx = 1} = {2}
        /\ \A o \in SlotOffsets(2) :
              Row(o).tx_id = 2 /\ Row(o).is_padding_tx = 1

\* The table of the worked example has been emitted.
C18_Witness ==
    /\ Emitted /\ OneTxTwoBytes
    /\ Len(CalldataRowsOf(1)) = 2
    /\ CalldataRowsOf(1)[2].calldata_gas_cost_acc = 20
    /\ SlotRow(1).num_txs = 1
    /\ SlotRow(2).is_padding_tx = 1

RECURSIVE CallDataBytes(_)
\* The calldata bytes of the first n transactions together.
CallDataBytes(n) ==
    IF n = 0 THEN 0 ELSE CallDataBytes(n - 1) + Len(txs[n].call_data)

\* The input exceeds the capacity of the circuit.
ExceedsCapacity ==
    \/ Len(txs) > max_txs
    \/ CallDataBytes(Len(txs)) > max_calldata

\* C19 (exceeding capacity is a build-time error): when txs.len() > max_txs
\* or the calldata bytes of all transactions exceed max_calldata, synthesis
\* never returns a table and can only stop in an assertion failure: with too many
\* transactions no row is assigned at all, with too much calldata the
\* second region is never reached and no row is assigned past the calldata
\* region.
C19_ExceedingCapacityAborts ==
    ExceedsCapacity =>
        /\ pc \notin {"zeros", "done", "error"}
        /\ Len(txs) > max_txs => table = <<>>
        /\ Len(table) <= 1 + max_txs * TX_LEN + max_calldata

\* Synthesis has aborted in the calldata part: the transactions fit, their
\* calldata does not.
C19_Witness ==
    /\ pc = "panic"
    /\ Len(txs) = 2 /\ Len(txs) <= max_txs
    /\ max_calldata > 0
    /\ CallDataBytes(Len(txs)) > max_calldata
    /\ Len(table) = 1 + max_txs * TX_LEN

\* Every transaction of the block carries the block's chain id.
ChainIdsAgree ==
    \A k \in 1..Len(block[1].txs) : block[1].txs[k].chain_id = block[1].chain_id

\* new_from_block has returned a circuit.
Constructed == block # None /\ pc = "start"

\* new_from_block has come to its end, one way or the other.
NewFromBlockOver == block # None /\ ~ENABLED NextBlock

\* The circuit has the block's parameters and transactions.
BuiltFromBlock ==
    /\ max_txs = block[1].circuits_params.max_txs
    /\ max_calldata = block[1].circuits_params.max_calldata
    /\ chain_id = block[1].chain_id
    /\ start_l1_queue_index = block[1].start_l1_queue_index
    /\ txs = block[1].txs

\* C20 as stated: new_from_block aborts with the chain-id panic iff some
\* transaction's chain_id differs from the block's, and whenever all agree
\* the circuit is built with the block's parameters and transactions.
C20_Original ==
    NewFromBlockOver =>
        /\ pc = "panic_inconsistent_chain_id" <=> ~ChainIdsAgree
        /\ ChainIdsAgree => (Constructed /\ BuiltFromBlock)

\* C20 (chain-id consistency at construction): new_from_block aborts with
\* the chain-id panic iff some transaction's chain_id differs from the
\* block's, naming the first such transaction, and then no circuit is
\* constructed; a circuit that is constructed has the block's max_txs,
\* max_calldata, chain_id, start_l1_queue_index and transactions unchanged;
\* when all agree and txs.len() <= max_txs the circuit is constructed, and
\* when all agree and txs.len() > max_txs it is constructed unless the
\* debug assertion of TxCircuit::new aborts.
C20_ChainIdConsistency ==
    /\ block # None /\ pc = "panic_inconsistent_chain_id" =>
          /\ block[1].txs[i + 1].chain_id # block[1].chain_id
          /\ \A k \in 1..i : block[1].txs[k].chain_id = block[1].chain_id
          /\ txs = <<>> /\ max_txs = 0 /\ chain_id = 0
    /\ Constructed => (ChainIdsAgree /\ BuiltFromBlock)
    /\ NewFromBlockOver =>
          /\ pc = "panic_inconsistent_chain_id" <=> ~ChainIdsAgree
          /\ (ChainIdsAgree /\ Len(block[1].txs) <= block[1].circuits_params.max_txs)
                => Constructed
          /\ ChainIdsAgree => (Constructed \/ pc = "panic")

\* A circuit built from a block of two transactions that carry the block's
\* chain id.
C20_Witness ==
    /\ Constructed /\ ChainIdsAgree
    /\ Len(txs) = 2 /\ max_txs = 2
    /\ chain_id = Sample.chain_id + 1
    /\ txs[2].chain_id = chain_id
    /\ start_l1_queue_index = 1

\* sign_data() fails for transaction t, which is not an L1 message.
SignatureFails(t) == ~is_l1_msg(t.tx_type) /\ tx_sign_data(t) = None

\* sign_data() fails for some real or padding transaction.
SomeSignatureFails ==
    \/ \E k \in 1..Len(txs) : SignatureFails(txs[k])
    \/ \E k \in 1..Len(make_padding_txs) : SignatureFails(make_padding_txs[k])

\* The recovered address of real transaction k differs from its sender.
RecoveredAddressDiffers(k) ==
    /\ ~is_l1_msg(txs[k].tx_type)
    /\ tx_sign_data(txs[k]) # None
    /\ tx_sign_data(txs[k])[1].addr # txs[k].caller_address

\* synthesize_sub has returned Error::Synthesis.
SynthesisError == pc = "error_synthesis"

\* C21 as stated: synthesize_sub returns Error::Synthesis, with no row
\* assigned, exactly when sign_data() fails for some real or padding
\* transaction that is not an L1 message.
C21_Original ==
    pc # "start" =>
        /\ SynthesisError <=> SomeSignatureFails
        /\ SynthesisError => table = <<>>

\* C21 (signature failure is a synthesis error): once past its capacity
\* assertion, synthesize_sub returns Error::Synthesis, with no row assigned,
\* exactly when sign_data() fails for some real or padding transaction that
\* is not an L1 message; a batch of L1 messages and recoverable signatures
\* never returns it, and a recovered address that differs from the sender
\* does not stop synthesis: the table is emitted with the recovered address
\* in sv_address.
C21_SignatureFailure ==
    /\ SynthesisError => (SomeSignatureFails /\ table = <<>> /\ sign_datas = <<>>)
    /\ (Len(txs) <= max_txs /\ pc # "start") => (SynthesisError <=> SomeSignatureFails)
    /\ (\A k \in 1..Len(txs) : is_l1_msg(txs[k].tx_type)) => ~SynthesisError
    /\ Emitted =>
          /\ ~SomeSignatureFails
          /\ \A k \in 1..Len(txs) :
                RecoveredAddressDiffers(k) =>
                   \A o \in SlotOffsets(k) :
                      Row(o).tag = "ChainID" =>
                         Row(o).sv_address = tx_sign_data(txs[k])[1].addr

\* Synthesis has returned the error for an L1 message followed by a
\* transaction whose signature does not recover.
C21_Witness ==
    /\ SynthesisError
    /\ Len(txs) = 2 /\ max_txs = 3
    /\ is_l1_msg(txs[1].tx_type)
    /\ SignatureFails(txs[2])
    /\ table = <<>>

(***************************************************************************)
(* Signature constraints of the transaction table                          *)
(***************************************************************************)
\* cb.require_boolean: e * (1 - e) = 0.
IsBoolean(e) == e * (1 - e) = 0

\* Gate "tx signature v" on the row pair (cur, next): v is the value of the
\* next row, chain_id the value of the current one.
TxSignatureVGate(cur, next) ==
    LET is_chain_id == cur.tag = "ChainID"
        v == next.value
        chain_id_ == cur.value
    IN cur.q_enable = 1 =>
          /\ (is_chain_id /\ cur.tx_type = TxTypeAsU64("Eip155")) =>
                IsBoolean(v - chain_id_ * 2 - 35)
          /\ (is_chain_id /\ cur.tx_type = TxTypeAsU64("PreEip155")) =>
                IsBoolean(v - 27)
          /\ (is_chain_id /\ cur.tx_type = TxTypeAsU64("L1Msg")) => v = 0

\* Mutant: the Signature Table lookup is enabled on every ChainID row.
SigTableLookupEnabled_on_l1(r) == r.tag = "ChainID"

\* "Sig table lookup": enabled = not(is_l1_msg) * is_chain_id.
SigTableLookupEnabled(r) == r.is_l1_msg = 0 /\ r.tag = "ChainID"

\* The input expressions of "Sig table lookup" at offset o (before the
\* multiplication by `enabled`): 1, msg_hash_rlc, v, sig_r, sig_s,
\* sv_address, 1.
SigTableLookupInput(o) ==
    LET chain_id_ == Row(o).value
        sig_v == Row(o + 1).value
        v == b2i(Row(o).tx_type = TxTypeAsU64("Eip155")) * (sig_v - 2 * chain_id_ - 35)
             + b2i(Row(o).tx_type = TxTypeAsU64("PreEip155")) * (sig_v - 27)
    IN <<1, Row(o + 6).value, v, Row(o + 2).value, Row(o + 3).value,
         Row(o).sv_address, 1>>

\* Values tried for v on the row after a ChainID row.
SigVValues == {0, 1, 26, 27, 28, 29,
               2 * Sample.chain_id + 34, 2 * Sample.chain_id + 35,
               2 * Sample.chain_id + 36, 2 * Sample.chain_id + 37}

\* The condition on v stated for a transaction of type t with chain id c.
SignatureVOfType(t, c, v) ==
    CASE t = "Eip155" -> v - 2 * c - 35 \in {0, 1}
      [] t = "PreEip155" -> v - 27 \in {0, 1}
      [] OTHER -> v = 0

\* The ChainID row of header slot s.
ChainIdOffset(s) == (s - 1) * TX_LEN + CHAIN_ID_OFFSET

\* C27 (signature v per type): on the ChainID row of every header slot the
\* gate "tx signature v" accepts a value v on the next row exactly when
\* v - 2*chain_id - 35 is 0 or 1 (Eip155), v - 27 is 0 or 1 (PreEip155) or
\* v = 0 (L1 message), and the emitted SigV row satisfies it; the Signature
\* Table lookup is enabled on exactly the ChainID rows of the slots that do
\* not hold an L1 message, and there its input is (1, TxSignHash value,
\* reconstructed v in {0,1}, SigR value, SigS value, recovered address, 1).
C27_SignatureV ==
    Emitted =>
       /\ \A s \in Slots :
             LET o == ChainIdOffset(s)
                 tx == TxOfSlot(s)
             IN /\ Row(o).tag = "ChainID"
                /\ Row(o + 1).tag = "SigV"
                /\ TxSignatureVGate(Row(o), Row(o + 1))
                /\ \A v \in SigVValues :
                      TxSignatureVGate(Row(o), [Row(o + 1) EXCEPT !.value = v])
                         <=> SignatureVOfType(tx.tx_type, Row(o).value, v)
                /\ SigTableLookupEnabled(Row(o)) <=> ~is_l1_msg(tx.tx_type)
                /\ SigTableLookupEnabled(Row(o)) =>
                      /\ SigTableLookupInput(o) =
                            <<1, HeaderRowOf(s, "TxSignHash").value,
                              tx.v - (IF tx.tx_type = "Eip155"
                                      THEN 2 * tx.chain_id + 35 ELSE 27),
                              HeaderRowOf(s, "SigR").value,
                              HeaderRowOf(s, "SigS").value,
                              sign_datas[s].addr, 1>>
                      /\ SigTableLookupInput(o)[3] \in {0, 1}
       /\ {o \in 0..(Len(table) - 1) : SigTableLookupEnabled(Row(o))} =
             {ChainIdOffset(s) : s \in {t \in Slots : ~is_l1_msg(TxOfSlot(t).tx_type)}}

\* An emitted table holding an L1 message, a transaction signed with
\* recovery id 1 and a padding slot.
C27_Witness ==
    /\ Emitted
    /\ Len(txs) = 2 /\ max_txs = 3
    /\ is_l1_msg(txs[1].tx_type)
    /\ txs[2].tx_type = "Eip155" /\ txs[2].v = 2 * txs[2].chain_id + 36
    /\ ~SigTableLookupEnabled(Row(ChainIdOffset(1)))
    /\ SigTableLookupInput(ChainIdOffset(2))[3] = 1
    /\ SigTableLookupEnabled(Row(ChainIdOffset(3)))

(***************************************************************************)
(* Calldata lookups of the transaction table into itself                   *)
(***************************************************************************)
\* Gate "calldata lookup into tx table condition": the TxCalldata condition
\* column equals is_data_length * not(value_is_zero).
CalldataLookupConditionGate(r) ==
    r.q_enable = 1 =>
       b2i(r.tag = "CallDataLength" /\ r.value # 0) = b2i("TxCalldata" \in r.conditions)

\* `enable` of both calldata lookups: q_enable * lookup_conditions[TxCalldata].
TxCalldataLookupEnabled(r) == r.q_enable = 1 /\ "TxCalldata" \in r.conditions

\* "tx call data gas cost in TxTable": the input at offset o and the table
\* expressions of a row.
CallDataGasCostLookupInput(o) == <<Row(o).tx_id, "CallData", Row(o + 1).value, 1>>
CallDataGasCostLookupTable(r) == <<r.tx_id, r.tag, r.calldata_gas_cost_acc, r.is_final>>

\* Mutant: the index looked for is the length itself.
IsFinalLookupInput_no_offset(o) == <<Row(o).tx_id, "CallData", Row(o).value, 1>>

\* "is_final call data byte should be present": the input at offset o and
\* the table expressions of a row.
IsFinalLookupInput(o) == <<Row(o).tx_id, "CallData", Row(o).value - 1, 1>>
IsFinalLookupTable(r) == <<r.tx_id, r.tag, r.index, r.is_final>>

\* All offsets of the emitted table.
TableOffsets == 0..(Len(table) - 1)

\* The CallDataLength row of header slot s.
CallDataLengthOffset(s) == CHOOSE o \in SlotOffsets(s) : Row(o).tag = "CallDataLength"

\* C28 (calldata-length check): the TxCalldata condition gate holds on every
\* row; both calldata lookups are enabled exactly on the CallDataLength rows
\* whose value L is not 0; there their inputs are (tx_id, CallData, L - 1, 1)
\* against (tx_id, tag, index, is_final) and (tx_id, CallData, value of the
\* CallDataGasCost row, 1) against (tx_id, tag, calldata_gas_cost_acc,
\* is_final); the emitted table holds a row for the first, and one for the
\* second when call_data_gas_cost is the sum of the per-byte costs.
C28_CalldataLengthCheck ==
    Emitted =>
       /\ \A o \in TableOffsets : CalldataLookupConditionGate(Row(o))
       /\ {o \in TableOffsets : TxCalldataLookupEnabled(Row(o))} =
             {CallDataLengthOffset(s) : s \in {t \in Slots : Len(TxOfSlot(t).call_data) # 0}}
       /\ \A s \in Slots :
             LET o == CallDataLengthOffset(s)
                 tx == TxOfSlot(s)
                 L == Row(o).value
             IN /\ L = Len(tx.call_data)
                /\ Row(o).tx_id = s
                /\ Row(o + 1).tag = "CallDataGasCost"
                /\ TxCalldataLookupEnabled(Row(o)) <=> L # 0
                /\ TxCalldataLookupEnabled(Row(o)) =>
                      /\ IsFinalLookupInput(o) = <<s, "CallData", L - 1, 1>>
                      /\ \E t \in TableOffsets :
                            IsFinalLookupTable(Row(t)) = IsFinalLookupInput(o)
                      /\ CallDataGasCostLookupInput(o) =
                            <<s, "CallData", HeaderRowOf(s, "CallDataGasCost").value, 1>>
                      /\ tx.call_data_gas_cost = tx_call_data_gas_cost(tx.call_data) =>
                            \E t \in TableOffsets :
                               CallDataGasCostLookupTable(Row(t)) = CallDataGasCostLookupInput(o)

\* A transaction without calldata between a one-byte and a two-byte one:
\* the lookups are enabled for the first and third only.
C28_Witness ==
    /\ Emitted
    /\ Len(txs) = 3
    /\ Len(txs[1].call_data) = 1 /\ txs[2].call_data = <<>> /\ Len(txs[3].call_data) = 2
    /\ TxCalldataLookupEnabled(Row(CallDataLengthOffset(3)))
    /\ ~TxCalldataLookupEnabled(Row(CallDataLengthOffset(2)))
    /\ IsFinalLookupInput(CallDataLengthOffset(3)) = <<3, "CallData", 1, 1>>
    /\ CallDataGasCostLookupInput(CallDataLengthOffset(3))[3] > 0

(***************************************************************************)
(* Layout of the header region                                             *)
(***************************************************************************)
\* The order of the tags of one header slot, as stated.
StatedHeaderOrder ==
    << "Nonce", "GasPrice", "Gas", "CallerAddress", "CalleeAddress", "IsCreate",
       "Value", "CallDataRLC", "CallDataLength", "CallDataGasCost",
       "TxDataGasCost", "ChainID", "SigV", "SigR", "SigS", "TxSignLength",
       "TxSignRLC", "TxSignHash", "TxHashLength", "TxHashRLC", "TxHash",
       "TxType", "BlockNumber" >>

\* The row at rotation k from offset o has the given tag.
TagAt(o, k, tag) == Row(o + k).tag = tag

\* C29 (fixed header layout): in every emitted table each of the max_txs
\* header slots, real or padding, is TX_LEN = 23 consecutive rows whose tags
\* follow the stated order, and no header tag occurs outside the header
\* region; IsCreate is at +1 from CalleeAddress, CallDataLength and
\* CallDataGasCost at +1/+2 from CallDataRLC, SigV/SigR/SigS/TxSignHash at
\* +1/+2/+3/+6 from ChainID, the RLC and hash rows at +1/+2 from each length
\* row, BlockNumber is the last row of its slot, and the ChainID and TxHash
\* rows of slot i are at rows (i-1)*TX_LEN + CHAIN_ID_OFFSET and
\* (i-1)*TX_LEN + TX_HASH_OFFSET.
C29_FixedHeaderLayout ==
    Emitted =>
       /\ TX_LEN = 23 /\ Len(StatedHeaderOrder) = TX_LEN
       /\ \A s \in Slots : \A k \in 1..TX_LEN :
             /\ Row((s - 1) * TX_LEN + k).tag = StatedHeaderOrder[k]
             /\ Row((s - 1) * TX_LEN + k).tx_id = s
       /\ \A o \in TableOffsets \ HeaderOffsets : Row(o).tag \in {"Null", "CallData"}
       /\ \A o \in HeaderOffsets :
             /\ Row(o).tag = "CalleeAddress" => TagAt(o, 1, "IsCreate")
             /\ Row(o).tag = "CallDataRLC" =>
                   TagAt(o, 1, "CallDataLength") /\ TagAt(o, 2, "CallDataGasCost")
             /\ Row(o).tag = "ChainID" =>
                   /\ TagAt(o, 1, "SigV") /\ TagAt(o, 2, "SigR")
                   /\ TagAt(o, 3, "SigS") /\ TagAt(o, 6, "TxSignHash")
             /\ Row(o).tag = "TxSignLength" =>
                   TagAt(o, 1, "TxSignRLC") /\ TagAt(o, 2, "TxSignHash")
             /\ Row(o).tag = "TxHashLength" =>
                   TagAt(o, 1, "TxHashRLC") /\ TagAt(o, 2, "TxHash")
             /\ Row(o).tag = "BlockNumber" <=> o % TX_LEN = 0
       /\ \A s \in Slots :
             /\ {o \in TableOffsets : Row(o).tag = "ChainID" /\ Row(o).tx_id = s} =
                   {(s - 1) * TX_LEN + CHAIN_ID_OFFSET}
             /\ {o \in TableOffsets : Row(o).tag = "TxHash" /\ Row(o).tx_id = s} =
                   {(s - 1) * TX_LEN + TX_HASH_OFFSET}

\* A real slot, an L1 message slot and a padding slot laid out alike.
C29_Witness ==
    /\ Emitted
    /\ Len(txs) = 2 /\ max_txs = 3
    /\ is_l1_msg(txs[2].tx_type)
    /\ Row(TX_LEN + CHAIN_ID_OFFSET).tag = "ChainID"
    /\ Row(2 * TX_LEN + TX_HASH_OFFSET).tag = "TxHash"
    /\ Row(2 * TX_LEN + TX_HASH_OFFSET).is_padding_tx = 1
    /\ Row(3 * TX_LEN).tag = "BlockNumber"

(***************************************************************************)
(* Padding of the calldata region                                          *)
(***************************************************************************)
\* The selector of the gate "tx call data bytes":
\* q_enable * is_calldata * not(tx_id_is_zero).
TxCallDataBytesGateEnabled(r) == r.q_enable = 1 /\ r.is_calldata = 1 /\ r.tx_id # 0

\* `enable` of "lookup CallDataRLC in the calldata part":
\* q_enable * is_calldata * not(tx_id_is_zero) * is_final.
CallDataRlcLookupEnabled(r) ==
    r.q_enable = 1 /\ r.is_calldata = 1 /\ r.tx_id # 0 /\ r.is_final = 1

\* The first row of the calldata region.
CalldataStart == max_txs * TX_LEN + 1

\* C30 (calldata-region padding): in every emitted table the calldata bytes
\* of all transactions are at most max_calldata; the calldata region is
\* exactly the max_calldata rows after the header; its first rows are the
\* real calldata rows (tx_id not 0) and each of the remaining max_calldata -
\* (total calldata bytes) rows is a zero row: tag CallData, tx_id 0, index 0,
\* value 0, gas accumulator 0, is_final 1, is_calldata 1 and all five lookup
\* conditions 0, on which the gate "tx call data bytes" and the calldata
\* lookups are not active.
C30_CalldataPadding ==
    Emitted =>
       LET total == CallDataBytes(Len(txs))
       IN /\ total <= max_calldata
          /\ {o \in TableOffsets : Row(o).tag = "CallData" \/ Row(o).is_calldata = 1}
                = CalldataOffsets
          /\ Cardinality(CalldataOffsets) = max_calldata
          /\ Len(table) >= CalldataStart + max_calldata
          /\ \A o \in CalldataOffsets :
                IF o < CalldataStart + total
                THEN Row(o).tx_id # 0 /\ TxCallDataBytesGateEnabled(Row(o))
                ELSE /\ Row(o).tag = "CallData"
                     /\ Row(o).tx_id = 0 /\ Row(o).index = 0 /\ Row(o).value = 0
                     /\ Row(o).calldata_gas_cost_acc = 0
                     /\ Row(o).is_final = 1 /\ Row(o).is_calldata = 1
                     /\ Row(o).conditions \cap LookupConditionNames = {}
                     /\ Cardinality(LookupConditionNames) = 5
                     /\ ~TxCallDataBytesGateEnabled(Row(o))
                     /\ ~CallDataRlcLookupEnabled(Row(o))
                     /\ ~TxCalldataLookupEnabled(Row(o))
          /\ Cardinality({o \in CalldataOffsets : Row(o).tx_id = 0}) = max_calldata - total

\* Three bytes of calldata in a region of eight rows: five zero rows.
C30_Witness ==
    /\ Emitted
    /\ max_calldata = 8
    /\ CallDataBytes(Len(txs)) = 3
    /\ TxCallDataBytesGateEnabled(Row(CalldataStart + 2))
    /\ Row(CalldataStart + 3) = calldata_zero_row
    /\ Row(CalldataStart + 7) = calldata_zero_row
    /\ Len(table) = CalldataStart + 8

(***************************************************************************)
(* Row budget                                                              *)
(***************************************************************************)
\* The rows the witness engine writes for the configured capacity: the
\* sentinel row, the header and the calldata region.
RowsWritten == 1 + max_txs * TX_LEN + max_calldata

\* C31 (row budget): min_num_rows(max_txs, max_calldata) is at least the
\* number of rows of the emitted table, which is 1 + max_txs * TX_LEN +
\* max_calldata.
C31_MinNumRows ==
    Emitted =>
       /\ Len(table) = RowsWritten
       /\ min_num_rows(max_txs, max_calldata) >= Len(table)

(***************************************************************************)
(* Gate "num_all_txs in a block"                                           *)
(***************************************************************************)
\* select::expr(is_l1_msg, queue_index - total_l1_popped_before + 1, 1) on
\* row r (queue_index is the tx_nonce column).
NumAllTxsContribution(r) ==
    IF r.is_l1_msg = 1 THEN r.tx_nonce - r.total_l1_popped_before + 1 ELSE 1

\* select::expr(is_l1_msg, queue_index + 1, total_l1_popped_before) on row r.
TotalL1PoppedAfter(r) ==
    IF r.is_l1_msg = 1 THEN r.tx_nonce + 1 ELSE r.total_l1_popped_before

\* The selector of the gate: q_enable * not(is_calldata) * is_tag_block_num.
NumAllTxsGateEnabled(r) == r.q_enable = 1 /\ r.is_calldata = 0 /\ r.tag = "BlockNumber"

\* Gate "num_all_txs in a block" on the row pair (cur, next); q_first_next
\* is the fixed column q_first at Rotation::next.
NumAllTxsGate(cur, next, q_first_next) ==
    NumAllTxsGateEnabled(cur) =>
       /\ q_first_next => cur.num_all_txs_acc = NumAllTxsContribution(cur)
       /\ (next.is_calldata = 0 /\ cur.block_num = next.block_num) =>
             /\ next.total_l1_popped_before = TotalL1PoppedAfter(cur)
             /\ next.num_all_txs_acc - cur.num_all_txs_acc = NumAllTxsContribution(next)
       /\ (next.is_calldata = 0 /\ cur.block_num # next.block_num) =>
             /\ next.total_l1_popped_before = TotalL1PoppedAfter(cur)
             /\ next.num_all_txs_acc = NumAllTxsContribution(next)

\* The gate holds on every row pair of the table t.
NumAllTxsGateHolds(t) ==
    \A o \in 0..(Len(t) - 2) : NumAllTxsGate(t[o + 1], t[o + 2], (o + 1) \in q_first)

\* The emitted table with num_all_txs_acc = a on the rows of the first slot.
WithFirstNumAllTxsAcc(a) ==
    [p \in 1..Len(table) |->
        IF (p - 1) \in SlotOffsets(1)
        THEN [table[p] EXCEPT !.num_all_txs_acc = a]
        ELSE table[p]]

\* Values tried for the first transaction's num_all_txs_acc.
NumAllTxsAccValues == 0..(MaxTxs + MaxQueueGap + 1)

\* C32 (first transaction's count): on the BlockNumber row of the first
\* transaction the first-transaction branch of the gate "num_all_txs in a
\* block" is active (q_first at the next row is 1), and a table whose first
\* transaction carries a num_all_txs_acc other than queue_index -
\* total_l1_popped_before + 1 (L1 message) or 1 (otherwise) violates the gate.
C32_FirstTxNumAllTxs ==
    (Emitted /\ max_txs >= 1) =>
       /\ NumAllTxsGateEnabled(Row(TX_LEN))
       /\ (TX_LEN + 1) \in q_first
       /\ \A a \in NumAllTxsAccValues :
             a # NumAllTxsContribution(Row(TX_LEN)) =>
                ~NumAllTxsGateHolds(WithFirstNumAllTxsAcc(a))

(***************************************************************************)
(* Assignments of the calldata region that satisfy its constraints         *)
(***************************************************************************)
\* select::expr(value_is_zero, 4, 16) on row r.
GasCostOfByte(r) == IF r.value = 0 THEN 4 ELSE 16

\* Gate "tx call data bytes" on the row pair (cur, next).
TxCallDataBytesGate(cur, next) ==
    TxCallDataBytesGateEnabled(cur) =>
       /\ IsBoolean(cur.is_final)
       /\ cur.is_final = 0 =>
             /\ next.index = cur.index + 1
             /\ next.tx_id = cur.tx_id
             /\ next.calldata_gas_cost_acc = cur.calldata_gas_cost_acc + GasCostOfByte(next)
             /\ next.calldata_rlc = cur.calldata_rlc * keccak_input + next.value
       /\ cur.is_final = 1 => next.tx_id # cur.tx_id
       /\ (cur.is_final = 1 /\ next.tx_id # 0) =>
             /\ next.index = 0
             /\ next.calldata_gas_cost_acc = GasCostOfByte(next)
             /\ next.calldata_rlc = next.value

\* Lookup "tx_id_diff must in u16" on the row pair (cur, next).
TxIdDiffInU16(cur, next) ==
    (next.q_enable = 1 /\ cur.is_calldata = 1 /\ next.tx_id # 0) =>
       (next.tx_id - cur.tx_id) \in 0..(2 ^ 16 - 1)

\* Bounds of the assignments tried.
MaxRegionRows == 4
MaxRegionTxId == 2

\* The rows tried: zero-tx_id rows with the other columns 0, and rows of a
\* transaction with any index, byte, is_final, accumulator and fingerprint
\* of a small range.
RegionRows ==
    { [calldata_zero_row EXCEPT !.is_final = f] : f \in {0, 1} }
    \cup
    { [calldata_zero_row EXCEPT !.tx_id = t, !.index = idx, !.value = v,
                                !.is_final = f, !.calldata_gas_cost_acc = acc,
                                !.calldata_rlc = rlc] :
        t \in 1..MaxRegionTxId, idx \in {0, 1}, v \in {0, 1}, f \in {0, 1},
        acc \in {0, 4, 16, 20}, rlc \in {0, 1} }

\* No circuit is synthesized: `table` holds a candidate assignment of the
\* calldata region, grown row by row.
InitRegion ==
    /\ table = <<>>
    /\ pc = "calldata_region"
    /\ builder = None
    /\ block = None
    /\ txs = <<>>
    /\ max_txs = 0
    /\ max_calldata = 0
    /\ start_l1_queue_index = 0
    /\ chain_id = 0
    /\ keccak_input \in Challenges
    /\ padding_txs = <<>>
    /\ sign_datas = <<>>
    /\ q_first = {}
    /\ q_calldata_first = {}
    /\ q_calldata_last = {}
    /\ i = 0
    /\ num_all_txs_acc = 0
    /\ total_l1_popped_before = 0
    /\ total_l1_popped_after = 0
    /\ calldata_count = 0
    /\ last_off = 0
    /\ block_table = <<>>

\* One more row is assigned, provided the gate and the lookup hold between
\* the previous row and it.
AppendRegionRow ==
    /\ pc = "calldata_region"
    /\ Len(table) < MaxRegionRows
    /\ \E r \in RegionRows :
          /\ table # <<>> =>
                /\ TxCallDataBytesGate(table[Len(table)], r)
                /\ TxIdDiffInU16(table[Len(table)], r)
          /\ table' = Append(table, r)
    /\ UNCHANGED <<inputs, builder, block_table, pc, padding_txs, sign_datas,
                   q_first, q_calldata_first, q_calldata_last, i,
                   num_all_txs_acc, total_l1_popped_before,
                   total_l1_popped_after, calldata_count, last_off>>

NextRegion == AppendRegionRow

SpecRegion == InitRegion /\ [][NextRegion]_vars

\* C33 (one run per transaction): in an assignment of the calldata region
\* that satisfies the gate "tx call data bytes" and the lookup "tx_id_diff
\* must in u16" the rows of a nonzero tx_id are one contiguous run, no
\* nonzero tx_id follows a row with tx_id = 0, and every run starts with
\* index 0 and the accumulator of its first byte unless it is the first row.
C33_SingleRun ==
    pc = "calldata_region" =>
       /\ \A j, k \in 1..Len(table) :
             (j < k /\ table[j].tx_id # 0 /\ table[j].tx_id = table[k].tx_id) =>
                \A m \in j..k : table[m].tx_id = table[j].tx_id
       /\ \A k \in 2..Len(table) :
             table[k - 1].tx_id = 0 => table[k].tx_id = 0
       /\ \A k \in 2..Len(table) :
             (table[k].tx_id # 0 /\ table[k].tx_id # table[k - 1].tx_id) =>
                /\ table[k].index = 0
                /\ table[k].calldata_gas_cost_acc = GasCostOfByte(table[k])

(***************************************************************************)
(* Lookup conditions                                                       *)
(***************************************************************************)
\* The gates "sign tag lookup into RLP table condition", "hash tag lookup
\* into RLP table condition", "l1 msg lookup into RLP table condition" and
\* "lookup into Keccak table condition" on row r.
RlpAndKeccakConditionGates(r) ==
    LET is_tag_in_tx_sign ==
            b2i(r.tag \in {"Nonce", "GasPrice", "Gas", "CalleeAddress", "Value",
                           "CallDataRLC", "TxSignLength", "TxSignRLC"})
            + b2i(r.tag = "ChainID" /\ r.tx_type = TxTypeAsU64("Eip155"))
        is_tag_in_tx_hash ==
            b2i(r.tag \in {"Nonce", "GasPrice", "Gas", "CalleeAddress", "Value",
                           "TxDataGasCost", "CallDataRLC", "SigV", "SigR", "SigS",
                           "TxHashLength", "TxHashRLC"})
        is_tag_in_l1_msg_hash ==
            b2i(r.tag \in {"Nonce", "Gas", "CalleeAddress", "Value", "CallDataRLC",
                           "CallerAddress", "TxHashLength", "TxHashRLC"})
        is_tag_sign_or_hash ==
            b2i(r.tag = "TxSignLength" /\ r.is_l1_msg = 0) + b2i(r.tag = "TxHashLength")
    IN /\ (r.q_enable = 1 /\ r.is_l1_msg = 0) =>
             is_tag_in_tx_sign = b2i("RlpSignTag" \in r.conditions)
       /\ (r.q_enable = 1 /\ r.is_l1_msg = 0) =>
             is_tag_in_tx_hash = b2i("RlpHashTag" \in r.conditions)
       /\ (r.q_enable = 1 /\ r.is_l1_msg = 1) =>
             is_tag_in_l1_msg_hash = b2i("L1MsgHash" \in r.conditions)
       /\ r.q_enable = 1 =>
             is_tag_sign_or_hash = b2i("Keccak" \in r.conditions)

\* The lookup conditions stated for a row with the given tag and value of a
\* transaction that is (l1) or is not an L1 message and is (eip155) or is
\* not an Eip155 transaction.
StatedConditions(tag, value, l1, eip155) ==
    (IF tag = "CallDataLength" /\ value # 0 THEN {"TxCalldata"} ELSE {})
    \cup
    (IF (~l1 /\ tag \in {"Nonce", "GasPrice", "Gas", "CalleeAddress", "Value",
                         "CallDataRLC", "TxSignLength", "TxSignRLC"})
        \/ (tag = "ChainID" /\ eip155)
     THEN {"RlpSignTag"} ELSE {})
    \cup
    (IF ~l1 /\ tag \in {"Nonce", "GasPrice", "Gas", "CalleeAddress", "Value",
                        "TxDataGasCost", "CallDataRLC", "SigV", "SigR", "SigS",
                        "TxHashLength", "TxHashRLC"}
     THEN {"RlpHashTag"} ELSE {})
    \cup
    (IF l1 /\ tag \in {"Nonce", "Gas", "CalleeAddress", "Value", "CallDataRLC",
                       "CallerAddress", "TxHashLength", "TxHashRLC"}
     THEN {"L1MsgHash"} ELSE {})
    \cup
    (IF tag = "TxHashLength" \/ (tag = "TxSignLength" /\ ~l1)
     THEN {"Keccak"} ELSE {})

\* C34 (stored lookup conditions): on every row of the emitted table the
\* five lookup-condition columns are exactly those the stated formulas give
\* for the row's tag, value and transaction; the condition gates hold; all
\* five are 0 on calldata rows; and RlpHashTag and L1MsgHash are never both
\* 1, so their sum is boolean.
C34_LookupConditions ==
    Emitted =>
       /\ \A s \in Slots : \A o \in SlotOffsets(s) :
             Row(o).conditions =
                StatedConditions(Row(o).tag, Row(o).value,
                                 is_l1_msg(TxOfSlot(s).tx_type),
                                 is_eip155_tx(TxOfSlot(s).tx_type))
       /\ \A o \in TableOffsets :
             /\ Row(o).conditions \subseteq LookupConditionNames
             /\ CalldataLookupConditionGate(Row(o))
             /\ RlpAndKeccakConditionGates(Row(o))
             /\ Row(o).tag \in {"CallData", "Null"} => Row(o).conditions = {}
             /\ b2i("RlpHashTag" \in Row(o).conditions)
                   + b2i("L1MsgHash" \in Row(o).conditions) \in {0, 1}

\* An L1 message, an Eip155 transaction and a PreEip155 padding slot: the
\* ChainID row is signed for the Eip155 transaction only, the L1 message is
\* hashed through L1MsgHash only.
C34_Witness ==
    /\ Emitted
    /\ Len(txs) = 2 /\ max_txs = 3
    /\ is_l1_msg(txs[1].tx_type) /\ txs[2].tx_type = "Eip155"
    /\ HeaderRowOf(1, "Nonce").conditions = {"L1MsgHash"}
    /\ HeaderRowOf(1, "TxSignLength").conditions = {}
    /\ HeaderRowOf(2, "ChainID").conditions = {"RlpSignTag"}
    /\ HeaderRowOf(3, "ChainID").conditions = {}
    /\ HeaderRowOf(2, "Nonce").conditions = {"RlpSignTag", "RlpHashTag"}
    /\ HeaderRowOf(2, "TxHashLength").conditions = {"RlpHashTag", "Keccak"}

(***************************************************************************)
(* The selectors q_calldata_first and q_calldata_last                      *)
(***************************************************************************)
\* The selector of the gate "tx call data init" at offset o:
\* q_calldata_first * not(tx_id_is_zero).
TxCallDataInitGateEnabled(o) == o \in q_calldata_first /\ Row(o).tx_id # 0

\* Gate "tx call data init" at offset o.
TxCallDataInitGate(o) ==
    TxCallDataInitGateEnabled(o) =>
       /\ Row(o).index = 0
       /\ Row(o).calldata_gas_cost_acc = GasCostOfByte(Row(o))
       /\ Row(o).calldata_rlc = Row(o).value

\* C35 (first calldata row): in every emitted table q_calldata_first is set
\* on exactly one row, the first row of the calldata region, so the gate
\* "tx call data init" is enabled on that row whenever its tx_id is not 0.
C35_CalldataFirst ==
    Emitted =>
       /\ q_calldata_first = {CalldataStart}
       /\ Row(CalldataStart).tx_id # 0 => TxCallDataInitGateEnabled(CalldataStart)
       /\ \A o \in TableOffsets : TxCallDataInitGate(o)


\* Gate "last row of call data" at offset o:
\* q_calldata_last * (is_final - 1) = 0.
LastRowOfCallDataGate(o) == o \in q_calldata_last => Row(o).is_final = 1

\* C36 (last calldata row): whatever the batch and the capacity, a row on
\* which q_calldata_last is set is the last row of the calldata region and
\* carries is_final = 1, so the gate "last row of call data" holds on the
\* rows assigned, and an emitted table has q_calldata_last on exactly one
\* row.
C36_CalldataLast ==
    /\ \A o \in q_calldata_last :
          /\ o = max_txs * TX_LEN + max_calldata
          /\ o \in CalldataOffsets
          /\ HasRow(o) => LastRowOfCallDataGate(o)
    /\ Emitted => Cardinality(q_calldata_last) = 1

(***************************************************************************)
(* Look-ahead values handed to the equality gadgets                        *)
(***************************************************************************)
\* C37 (look-ahead coherence): on every row of the emitted table but the
\* last, the tx_id_next handed to tx_id_unchanged is the tx_id of the
\* following row, and on every BlockNumber row the next_block_number handed
\* to block_num_unchanged is the block_num of the following row: the block
\* number of the transaction of the next slot, or 0 after the last slot.
C37_LookAhead ==
    Emitted =>
       /\ \A o \in 0..(Len(table) - 2) :
             /\ Row(o).tx_id_next = Row(o + 1).tx_id
             /\ Row(o).tag = "BlockNumber" =>
                   Row(o).next_block_num = Row(o + 1).block_num
       /\ \A s \in Slots :
             LET r == Row(s * TX_LEN)
             IN /\ r.tag = "BlockNumber"
                /\ r.next_block_num =
                      (IF s = max_txs THEN 0 ELSE TxOfSlot(s + 1).block_number)
                /\ r.tx_id_next =
                      (IF s < max_txs THEN s + 1
                       ELSE IF CalldataOffsets = {} THEN 0
                       ELSE Row(CalldataStart).tx_id)

\* Two bytes of the first transaction, none of the second, one padding
\* slot: the last header row looks ahead to tx_id 1 and block number 0, the
\* final byte to tx_id 0.
C37_Witness ==
    /\ Emitted
    /\ Len(txs) = 2 /\ max_txs = 3
    /\ Len(txs[1].call_data) = 2 /\ txs[2].call_data = <<>>
    /\ Row(0).tx_id_next = 1
    /\ Row(2 * TX_LEN).next_block_num = 0 /\ Row(2 * TX_LEN).block_num # 0
    /\ Row(3 * TX_LEN).tx_id_next = 1 /\ Row(3 * TX_LEN).next_block_num = 0
    /\ Row(CalldataStart).tx_id_next = 1
    /\ Row(CalldataStart + 1).tx_id_next = 0 /\ Row(CalldataStart + 1).is_final = 1

(***************************************************************************)
(* Unsigned arithmetic of the witness engine                               *)
(***************************************************************************)
\* The two ends of the trailing rows, as `assign` computes them from
\* last_off: the end of the zero rows and the end of the padding rows.
ZerosEnd == max_calldata + max_txs * TX_LEN + 1 - last_off
PaddingsEnd == size - minimum_rows - last_off

\* C38 (no underflow): for a circuit built by TxCircuit::new, on every row
\* assigned cum_num_txs - num_txs >= 0 and, for an L1 message, queue_index -
\* total_l1_popped_before + 1 >= 1; and once the first region has returned
\* last_off, both max_calldata + max_txs*TX_LEN + 1 - last_off and size -
\* minimum_rows - last_off are at least 0.
C38_NoUnderflow ==
    /\ \A o \in TableOffsets :
          /\ Row(o).cum_num_txs - Row(o).num_txs >= 0
          /\ Row(o).is_l1_msg = 1 =>
                Row(o).tx_nonce - Row(o).total_l1_popped_before + 1 >= 1
    /\ pc = "zeros" => (ZerosEnd >= 0 /\ PaddingsEnd >= 0)

(***************************************************************************)
(* Acceptance of batches within capacity                                   *)
(***************************************************************************)
\* An assertion of synthesize_sub or of the first region of assign has
\* failed (the first region has not returned last_off).
AssertionFailed == pc = "panic" /\ last_off = 0

\* The batch is within the capacity of the circuit.
WithinCapacity == ~ExceedsCapacity

\* C39 (a batch within capacity is accepted): when txs.len() <= max_txs and
\* the calldata bytes of all transactions are at most max_calldata, the
\* case of equality included, no assertion fails during witness assignment.
C39_WithinCapacityAccepted == WithinCapacity => ~AssertionFailed

(***************************************************************************)
(* Properties of the constraint builder                                    *)
(***************************************************************************)
\* A builder is in use.
HasBuilder == builder # None

RECURSIVE ScopeProduct(_)
\* 1 multiplied, from the outside in, by the conditions of the n outermost
\* open condition() calls.
ScopeProduct(n) ==
    IF n = 0 THEN Constant(1)
    ELSE Product(ScopeProduct(n - 1), builder.frames[n].sub)

RECURSIVE ConditionFactors(_)
\* The conditions multiplied into an active condition, outermost first.
ConditionFactors(cond) ==
    IF cond[1] = "Product" THEN Append(ConditionFactors(cond[2]), cond[3]) ELSE <<>>

\* The tag conditions among the factors of a registered expression's
\* condition.
TagFactorsOf(cond) ==
    SelectSeq(ConditionFactors(cond), LAMBDA f : f[1] = "Query" /\ f[2] = "tag_matches")

RECURSIVE Registered(_, _)
\* The constraints the calls `ops` register, each under the conditions
\* that enclose it in the text, when the condition around them is cond.
Registered(ops, cond) ==
    IF ops = <<>> THEN <<>>
    ELSE LET c == Head(ops)
             scratch == [ConstraintBuilder_new EXCEPT !.condition = cond]
             mine == CASE c.op = "require_zero" ->
                             require_zero(scratch, c.name, c.e).constraints
                       [] c.op = "require_equal" ->
                             require_equal(scratch, c.name, c.a, c.b).constraints
                       [] c.op = "require_boolean" ->
                             require_boolean(scratch, c.name, c.e).constraints
                       [] c.op = "require_in_set" ->
                             require_in_set(scratch, c.name, c.item, c.set).constraints
                       [] c.op = "add_lookup" -> <<>>
                       [] c.op = "condition" -> Registered(c.body, Product(cond, c.sub))
         IN mine \o Registered(Tail(ops), cond)

\* build(q) has returned.
BuildReturned == HasBuilder /\ builder.mode = "build" /\ AtTopLevel

\* C22 (builder scoping): the active condition of a fresh builder is 1; in
\* every state it is 1 multiplied by the conditions of the open
\* condition() calls, so it is 1 whenever no call is open, after build()
\* too; when condition(sub, body) returns, nested or not, the active
\* condition is what it was when it was called; and what build() registers
\* carries the condition of its own tag only: each constraint and lookup is
\* under at most one tag condition, and the constraints are those the text
\* of build registers under their enclosing conditions.
C22_BuilderScoping ==
    HasBuilder =>
        /\ builder.last.op = "new" => builder.cb.condition = Constant(1)
        /\ builder.cb.condition = ScopeProduct(Len(builder.frames))
        /\ builder.frames = <<>> => builder.cb.condition = Constant(1)
        /\ builder.last.op = "condition_return" =>
              /\ builder.cb.condition = builder.last.original_condition
              /\ builder.before.condition =
                    Product(builder.last.original_condition, builder.last.sub)
              /\ builder.cb.constraints = builder.before.constraints
              /\ builder.cb.lookups = builder.before.lookups
        /\ \A k \in 1..Len(builder.cb.constraints) :
              Len(TagFactorsOf(builder.cb.constraints[k][2][2])) <= 1
        /\ \A k \in 1..Len(builder.cb.lookups) :
              Len(TagFactorsOf(builder.cb.lookups[k][2][1][3])) <= 1
        /\ BuildReturned => builder.cb.constraints = Registered(build, Constant(1))

\* build() has returned: 39 constraints, the last under the CallContext
\* condition alone, the address-change constraint of the stack under the
\* Stack condition and is_id_unchanged, the one after it under Stack alone.
C22_Witness ==
    /\ BuildReturned
    /\ builder.cb.condition = Constant(1)
    /\ Len(builder.cb.constraints) = 39
    /\ builder.cb.constraints[39][1] = "storage_key is 0 for CallContext"
    /\ ConditionFactors(builder.cb.constraints[39][2][2]) = <<tag_matches("CallContext")>>
    /\ ConditionFactors(builder.cb.constraints[20][2][2])
          = <<tag_matches("Stack"), Query("is_id_unchanged")>>
    /\ ConditionFactors(builder.cb.constraints[21][2][2]) = <<tag_matches("Stack")>>

\* The tags of the rows on which expressions are evaluated: the tag of
\* every open condition(tag_matches(..)) and one tag that matches none.
RowTags ==
    {TagValue(builder.frames[k].sub[3]) :
        k \in {j \in 1..Len(builder.frames) : builder.frames[j].sub[2] = "tag_matches"}}
    \cup {TagValue("TxReceipt")}

\* Rows on which expressions are evaluated: the conditions and the selector
\* are boolean, the tag is one of RowTags, x is any field element.
Rows ==
    {[c1 |-> c1, c2 |-> c2, q |-> q, x |-> x, tag |-> tag] :
        c1 \in {0, 1}, c2 \in {0, 1}, q \in {0, 1}, x \in FieldElements, tag \in RowTags}

\* Every condition of an open condition() call is 1 on the row.
ScopesHold(row) ==
    \A k \in 1..Len(builder.frames) : Eval(builder.frames[k].sub, row) = 1

\* The last call appended exactly one constraint, with this name and
\* expression, and changed nothing else of the builder.
AppendedConstraint(name, expr) ==
    /\ builder.cb.constraints = Append(builder.before.constraints, <<name, expr>>)
    /\ builder.cb.lookups = builder.before.lookups
    /\ builder.cb.condition = builder.before.condition

\* The expression of the constraint registered last.
LastConstraint == builder.cb.constraints[Len(builder.cb.constraints)][2]

\* C23 (conditional constraints): require_zero(name, e) appends exactly one
\* constraint, (product of the conditions of the enclosing condition()
\* scopes) * e: at nesting depth k it carries all k conditions, it is zero
\* on every row where one of them is 0 and equals e where all are 1;
\* require_equal(a, b) registers condition * (a - b), zero under the
\* conditions iff a = b, and require_boolean(e) registers
\* condition * e * (1 - e), zero under the conditions iff e is 0 or 1.
C23_RequireZero ==
    HasBuilder =>
        /\ builder.last.op = "require_zero" =>
              /\ AppendedConstraint(builder.last.name,
                                    Product(ScopeProduct(Len(builder.frames)), builder.last.e))
              /\ ConditionFactors(LastConstraint[2])
                    = [k \in 1..Len(builder.frames) |-> builder.frames[k].sub]
              /\ \A row \in Rows :
                    Eval(LastConstraint, row)
                       = IF ScopesHold(row) THEN Eval(builder.last.e, row) ELSE 0
        /\ builder.last.op = "require_equal" =>
              /\ AppendedConstraint(builder.last.name,
                                    Product(ScopeProduct(Len(builder.frames)),
                                            Sub(builder.last.a, builder.last.b)))
              /\ \A row \in Rows :
                    Eval(LastConstraint, row) = 0
                       <=> (ScopesHold(row) =>
                               Eval(builder.last.a, row) = Eval(builder.last.b, row))
        /\ builder.last.op = "require_boolean" =>
              /\ AppendedConstraint(builder.last.name,
                                    Product(ScopeProduct(Len(builder.frames)),
                                            Product(builder.last.e,
                                                    Sub(Constant(1), builder.last.e))))
              /\ \A row \in Rows :
                    Eval(LastConstraint, row) = 0
                       <=> (ScopesHold(row) => Eval(builder.last.e, row) \in {0, 1})

\* require_zero("a", x) has been called inside condition(c1) inside
\* condition(c2).
C23_Witness ==
    /\ HasBuilder
    /\ builder.last = OpRequireZero("a", Query("x"))
    /\ Len(builder.frames) = 2
    /\ builder.frames[1].sub = Query("c2") /\ builder.frames[2].sub = Query("c1")
    /\ Len(builder.cb.constraints) = 1
    /\ LastConstraint
          = Product(Product(Product(Constant(1), Query("c2")), Query("c1")), Query("x"))

\* C24 (conditional lookups): add_lookup(name, (key, table)) appends exactly
\* one lookup, with key * (active condition) as its key and the table
\* expression as given; it adds no constraint and leaves the active
\* condition alone; on a row where an enclosing condition is 0 the key is
\* 0, and where all are 1 it is the given key.
C24_AddLookup ==
    (HasBuilder /\ builder.last.op = "add_lookup") =>
        /\ builder.cb.lookups =
              Append(builder.before.lookups,
                     <<builder.last.name,
                       <<Product(builder.last.lookup[1], ScopeProduct(Len(builder.frames))),
                         builder.last.lookup[2]>>>>)
        /\ builder.cb.constraints = builder.before.constraints
        /\ builder.cb.condition = builder.before.condition
        /\ \A row \in Rows :
              Eval(builder.cb.lookups[Len(builder.cb.lookups)][2][1], row)
                 = IF ScopesHold(row) THEN Eval(builder.last.lookup[1], row) ELSE 0

\* add_lookup has been called inside condition(c1), after a constraint.
C24_Witness ==
    /\ HasBuilder
    /\ builder.last.op = "add_lookup"
    /\ Len(builder.frames) = 1 /\ builder.frames[1].sub = Query("c1")
    /\ Len(builder.cb.constraints) = 1
    /\ builder.cb.lookups
          = << <<"lk", <<Product(Query("x"), Product(Constant(1), Query("c1"))), Query("t")>>>> >>

\* C25 (set membership): require_in_set(name, e, S) appends exactly one
\* constraint, condition * 1 * (e - s1) * ... * (e - sn); on a row where
\* the enclosing conditions are 1 it is zero iff e equals a member of S,
\* repeated members or not; for empty S the product is the constant 1 and
\* the constraint is zero on no such row.
C25_RequireInSet ==
    (HasBuilder /\ builder.last.op = "require_in_set") =>
        LET item == builder.last.item
            S == builder.last.set
        IN /\ Len(builder.cb.constraints) = Len(builder.before.constraints) + 1
           /\ builder.cb.constraints[Len(builder.cb.constraints)][1] = builder.last.name
           /\ SubSeq(builder.cb.constraints, 1, Len(builder.before.constraints))
                 = builder.before.constraints
           /\ builder.cb.lookups = builder.before.lookups
           /\ builder.cb.condition = builder.before.condition
           /\ LastConstraint[2] = ScopeProduct(Len(builder.frames))
           /\ ConditionFactors(LastConstraint[3]) = [k \in 1..Len(S) |-> Sub(item, S[k])]
           /\ S = <<>> => LastConstraint[3] = Constant(1)
           /\ \A row \in Rows :
                 ScopesHold(row) =>
                    (Eval(LastConstraint, row) = 0
                        <=> \E k \in 1..Len(S) : Eval(item, row) = Eval(S[k], row))

\* require_in_set has been called with a set of two members, with a set
\* that repeats a member, and with the empty set.
C25_Witness ==
    /\ HasBuilder
    /\ builder.last.op = "require_in_set" /\ builder.last.set = <<>>
    /\ Len(builder.cb.constraints) = 3
    /\ builder.cb.constraints[1][2]
          = Product(Constant(1),
                    Product(Product(Constant(1), Sub(Query("x"), Constant(1))),
                            Sub(Query("x"), Constant(3))))
    /\ builder.cb.constraints[2][2]
          = Product(Constant(1),
                    Product(Product(Constant(1), Sub(Query("x"), Constant(2))),
                            Sub(Query("x"), Constant(2))))
    /\ builder.cb.constraints[3][2] = Product(Constant(1), Constant(1))

RECURSIVE Mentions(_, _)
\* The expression queries the column of this name.
Mentions(e, name) ==
    CASE e[1] = "Constant" -> FALSE
      [] e[1] = "Query" -> e[2] = name
      [] e[1] = "Negated" -> Mentions(e[2], name)
      [] OTHER -> Mentions(e[2], name) \/ Mentions(e[3], name)

\* C26 (global selector): gate(selector) returns the constraints registered
\* so far, in registration order and under their names, each as
\* selector * expression, so that on a row where the selector is 0 every
\* returned expression is 0 (and where it is 1 it is the constraint's
\* own); gate and lookups change nothing of the builder, and lookups()
\* returns the lookups as registered, without the selector.
C26_Gate ==
    HasBuilder =>
        /\ builder.last.op = "gate" =>
              /\ builder.cb = builder.before
              /\ Len(builder.returned) = Len(builder.cb.constraints)
              /\ \A k \in 1..Len(builder.returned) :
                    /\ builder.returned[k][1] = builder.cb.constraints[k][1]
                    /\ builder.returned[k][2]
                          = Product(builder.last.condition, builder.cb.constraints[k][2])
                    /\ \A row \in Rows :
                          Eval(builder.returned[k][2], row)
                             = IF Eval(builder.last.condition, row) = 0 THEN 0
                               ELSE Eval(builder.cb.constraints[k][2], row)
        /\ builder.last.op = "lookups" =>
              /\ builder.cb = builder.before
              /\ builder.returned = builder.cb.lookups
              /\ \A k \in 1..Len(builder.returned) :
                    /\ ~Mentions(builder.returned[k][2][1], "q")
                    /\ ~Mentions(builder.returned[k][2][2], "q")

\* gate(q) has returned two constraints registered as "b" then "a".
C26_Witness ==
    /\ HasBuilder
    /\ builder.last.op = "gate"
    /\ builder.cb.lookups # <<>>
    /\ builder.returned
          = << <<"b", Product(Query("q"), Product(Constant(1), Query("x")))>>,
               <<"a", Product(Query("q"),
                              Product(Constant(1), Sub(Query("x"), Constant(1))))>> >>

(***************************************************************************)
(* The "prev value" constraint of the state circuit                        *)
(***************************************************************************)
\* The values the value columns of a row take.
PrevValues == {0, 1, 2}

\* Rows of the rw table as the "prev value" constraint reads them.
RwRows ==
    {[tag |-> tag, value_prev |-> vp, value_at_prev_rotation |-> vr, aux2 |-> aux2,
      lexicographic_ordering_upper_limb_difference_is_zero |-> u,
      is_storage_key_unchanged |-> k] :
        tag \in 1..Len(RwTableTags), vp \in PrevValues, vr \in PrevValues,
        aux2 \in PrevValues, u \in {0, 1}, k \in {0, 1}}

\* build(q) has registered "prev value", the third general constraint.
HasPrevValue ==
    /\ HasBuilder
    /\ builder.mode = "build"
    /\ Len(builder.cb.constraints) >= 3
    /\ builder.cb.constraints[3][1] = "prev value"

\* The row satisfies the registered "prev value" constraint.
PrevValueHolds(row) == Eval(builder.cb.constraints[3][2], row) = 0

\* The upper limb difference is nonzero or the storage key changed.
IsFirstAccess(row) ==
    \/ row["lexicographic_ordering_upper_limb_difference_is_zero"] = 0
    \/ row["is_storage_key_unchanged"] = 0

\* What is required of value_prev on a row, by tag; `others` is what is
\* required on Start, Memory, Stack and CallContext rows.
PrevValueRequirement(row, others) ==
    LET tag == RwTableTags[row["tag"]]
    IN CASE tag \in {"TxAccessListAccount", "TxAccessListAccountStorage",
                     "AccountDestructed", "TxRefund"} ->
                 row["value_prev"]
                    = IF IsFirstAccess(row) THEN 0 ELSE row["value_at_prev_rotation"]
         [] tag = "AccountStorage" ->
                 row["value_prev"]
                    = IF IsFirstAccess(row) THEN row["aux2"]
                      ELSE row["value_at_prev_rotation"]
         [] tag = "Account" ->
                 IsFirstAccess(row) \/ row["value_prev"] = row["value_at_prev_rotation"]
         [] tag \in {"Start", "Memory", "Stack", "CallContext"} -> others
         [] OTHER -> row["value_prev"] = 0

====
